---- MODULE Spec2Model ----
(***************************************************************************)
(* Order pipeline of ForecastSync: chain listener, place, request_unfreeze, *)
(* request_withdraw, settlement ingestion and the result-sync sweep, all     *)
(* running as concurrent tasks against one relational store.                 *)
(*                                                                           *)
(* Every handler is a process whose steps are the store statements and the   *)
(* external calls (venue, chain) of its code, in the code's order; between   *)
(* two steps any other task may run (Go handlers run in their own            *)
(* goroutines, the store is the only shared state, no transaction is opened).*)
(*                                                                           *)
(* Units: prices are thousandths (1000 = 1.00), amounts are cents            *)
(* (500 = 5.00 USDC), time is seconds.                                       *)
(***************************************************************************)
EXTENDS Integers, Sequences, FiniteSets, TLC

(* ------------------------------ bounds ---------------------------------- *)

\* last instant of the clock
MaxTime == 1
\* venue-side orders accepted per contract_order_id that the model follows
MaxVenueOrders == 2
\* releaseFunds transactions sent per contract_order_id that the model follows
MaxReleaseTx == 2

(* --------------------------- input universes ---------------------------- *)

BetIds == {"b1", "b2"}
DepositTxs == {"t1", "t2", "t3"}
SettleTxs == {"s1", "s2"}
Wallets == {"w1", "w2"}
ReqAmounts == {0, 501, 502}
Prices == {650, 1000}
PlatformIds == {1, 2}
VenueOptionNames == {"Yes", "NO"}
BetOptions == {"YES", " NO", "maybe"}
Results == {"", "Yes", "NO"}
PlaceCallers == {"p1", "p2"}
UnfreezeCallers == {"u1"}
WithdrawCallers == {"x1"}

\* const kalshiPlatformID: the fiat venue
kalshiPlatformID == 2

\* escrow lockFunds(betId, amount) accumulates, so one betId may be locked by
\* several transactions and one transaction may lock several betIds; the
\* sender and the amount of a lock are fixed by the transaction and the betId
LockSender(betId) == IF betId = "b1" THEN "w1" ELSE "w2"

LockAmount(txHash, betId) == IF txHash = "t2" /\ betId = "b2" THEN 0 ELSE 500

FundsLockedLogs ==
    {[TxHash |-> t, betId |-> b, from |-> LockSender(b), amount |-> LockAmount(t, b)]
        : t \in DepositTxs, b \in BetIds}

SettledLogs == [TxHash : SettleTxs, betId : BetIds]

(* ------------------------------- catalog --------------------------------- *)

\* two venue events of one canonical event, one per platform
Events ==
    { [ID |-> 1, EventUUID |-> "1_a", PlatformID |-> 1, PlatformEventID |-> "a"],
      [ID |-> 2, EventUUID |-> "2_a", PlatformID |-> 2, PlatformEventID |-> "a"] }

EventUUIDs == {e.EventUUID : e \in Events}

GetEventByUUID(uuid) == CHOOSE e \in Events : e.EventUUID = uuid

(* ---------------------------- string helpers ----------------------------- *)

\* strings.Trim(s, " ")
Trim(s) ==
    CASE s = " NO" -> "NO"
      [] s = " YES" -> "YES"
      [] OTHER -> s

\* strings.ToUpper
ToUpper(s) ==
    CASE s \in {"YES", "Yes", "yes"} -> "YES"
      [] s \in {"NO", "No", "no"} -> "NO"
      [] s = "maybe" -> "MAYBE"
      [] OTHER -> s

(* ------------------------------ pickBestOdds ----------------------------- *)

OddsRows ==
    [PlatformID : PlatformIds, OptionName : VenueOptionNames,
     OptionType : {""}, Price : Prices]

OddsInputs ==
    {<<r>> : r \in OddsRows} \cup {<<r1, r2>> : r1 \in OddsRows, r2 \in OddsRows}

RECURSIVE pickBestLoop(_, _, _, _)
pickBestLoop(odds, betUpper, i, acc) ==
    IF i > Len(odds) THEN acc
    ELSE LET o == odds[i]
             optionUpper == ToUpper(Trim(o.OptionName))
             nameMatch == optionUpper = betUpper
             winLoseMatch == \/ (betUpper = "YES" /\ o.OptionType = "win")
                             \/ (betUpper = "NO" /\ o.OptionType = "lose")
         IN IF ~nameMatch /\ ~winLoseMatch
            THEN pickBestLoop(odds, betUpper, i + 1, acc)
            ELSE IF ~acc.found \/ o.Price > acc.price
                 THEN pickBestLoop(odds, betUpper, i + 1,
                                   [found |-> TRUE, price |-> o.Price,
                                    platformID |-> o.PlatformID,
                                    optionName |-> o.OptionName])
                 ELSE pickBestLoop(odds, betUpper, i + 1, acc)

NoBest == [found |-> FALSE, price |-> 0, platformID |-> 0, optionName |-> ""]

\* pickBestOdds that compares the request's bet option as it came
pickBestOdds_NoTrim(odds, betOption) ==
    LET opt == betOption
    IN IF opt = "" THEN NoBest
       ELSE pickBestLoop(odds, ToUpper(opt), 1, NoBest)

\* found = FALSE stands for the error return
pickBestOdds(odds, betOption) ==
    LET opt == Trim(betOption)
    IN IF opt = "" THEN NoBest
       ELSE pickBestLoop(odds, ToUpper(opt), 1, NoBest)

clampOddsForSign(price) ==
    IF price >= 1000 THEN 990
    ELSE IF price <= 0 THEN 10
    ELSE price

\* step 6 of place: the request's locked_odds when it is given, else the
\* live best price, as it is
SubmittedOdds(reqLockedOdds, bestPrice) ==
    IF reqLockedOdds > 0 THEN reqLockedOdds ELSE bestPrice

\* what TradingAdapter.PlaceOrder does with the price it is handed: the
\* fiat venue's adapter rounds it to cents and clamps to 1..99, the CLOB
\* venue's adapter refuses a price outside (0, 1)
AdapterPrice(platformID, lockedOdds) ==
    IF platformID = kalshiPlatformID
        THEN LET priceCents == (lockedOdds + 5) \div 10
             IN [ok |-> TRUE,
                 price |-> 10 * (IF priceCents < 1 THEN 1
                                 ELSE IF priceCents > 99 THEN 99
                                 ELSE priceCents)]
    ELSE IF lockedOdds <= 0 \/ lockedOdds >= 1000
        THEN [ok |-> FALSE, price |-> 0]
    ELSE [ok |-> TRUE, price |-> lockedOdds]

(* ------------------------- signature verification ------------------------ *)

\* message_to_sign "PlaceOrder:<id>:<event>:<option>:<odds>:<expires_at>":
\* nparts is the number of ":"-separated parts, expiresOk whether the last
\* part parses as an integer, expiresAt its value; coid, eventUUID,
\* betOption and lockedOdds are the parts <id>, <event>, <option> and <odds>
Messages ==
    [nparts : {5, 6}, expiresOk : {TRUE}, expiresAt : 0..MaxTime,
     coid : BetIds, eventUUID : {"1_a"}, betOption : {"YES"}, lockedOdds : {650}]
        \cup [nparts : {6}, expiresOk : {FALSE}, expiresAt : {0},
               coid : BetIds, eventUUID : {"1_a"}, betOption : {"YES"},
               lockedOdds : {650}]

NoMessage ==
    [nparts |-> 0, expiresOk |-> FALSE, expiresAt |-> 0,
     coid |-> "", eventUUID |-> "", betOption |-> "", lockedOdds |-> 0]

\* const prepareOrderExpirySec
prepareOrderExpirySec == 300

\* the message prepare builds at nowSec for its request and the clamped
\* best price
PreparedMessage(coid, eventUUID, betOption, lockedOdds, nowSec) ==
    [nparts |-> 6, expiresOk |-> TRUE, expiresAt |-> nowSec + prepareOrderExpirySec,
     coid |-> coid, eventUUID |-> eventUUID, betOption |-> betOption,
     lockedOdds |-> lockedOdds]

\* a caller that holds no prepare response
NoPrepared == [lockedOdds |-> 0, msg |-> NoMessage]

\* a request's signature: absent ("none"), malformed hex or shorter than 65
\* bytes ("bad"), or the personal_sign of signedMsg by signer ("sig")
NoSignature == [kind |-> "none", signer |-> "", signedMsg |-> NoMessage]

BadSignature == [kind |-> "bad", signer |-> "", signedMsg |-> NoMessage]

SignaturesFor(messageToSign) ==
    {NoSignature, BadSignature} \cup
    [kind : {"sig"}, signer : Wallets,
     signedMsg : {messageToSign,
                  [messageToSign EXCEPT !.expiresAt = 0]}]

\* crypto.SigToPub over the personal_sign hash: the signer when the hashed
\* message is the signed one, an unrelated address otherwise
RecoverSigner(messageToSign, sig) ==
    IF sig.signedMsg = messageToSign THEN sig.signer ELSE "0xunrelated"

\* verifyOrderSignature without its last check, the expiry
verifyOrderSignature_NoExpiry(userWallet, messageToSign, sig, nowSec) ==
    IF sig.kind # "sig" THEN "invalid signature hex"
    ELSE IF RecoverSigner(messageToSign, sig) # userWallet THEN "signer mismatch"
    ELSE IF messageToSign.nparts < 6 THEN "bad format"
    ELSE IF ~messageToSign.expiresOk THEN "bad expiry"
    ELSE ""

\* "" when the signature is accepted, else the error
verifyOrderSignature(userWallet, messageToSign, sig, nowSec) ==
    IF sig.kind # "sig" THEN "invalid signature hex"
    ELSE IF RecoverSigner(messageToSign, sig) # userWallet THEN "signer mismatch"
    ELSE IF messageToSign.nparts < 6 THEN "bad format"
    ELSE IF ~messageToSign.expiresOk THEN "bad expiry"
    ELSE IF nowSec > messageToSign.expiresAt THEN "expired"
    ELSE ""

(* -------------------------------- state ---------------------------------- *)

VARIABLES
    contractEvents,     \* table contract_events (rows of event_type DepositSuccess)
    orders,             \* table orders
    settlementRecords,  \* table settlement_records
    venueOrders,        \* per contract_order_id: orders the venues accepted
    releaseSent,        \* per contract_order_id: releaseFunds transactions sent
    released,           \* per contract_order_id: releaseFunds receipts with status success
    lateReleased,       \* per contract_order_id: releaseFunds transactions mined with
                        \* success after the wait for their receipt had ended
    delivered,          \* FundsLocked logs handed to the listener so far
    now,                \* wall clock
    place,              \* in-flight PlaceOrderFromFrontend calls
    unfreeze,           \* in-flight RequestUnfreeze calls
    withdraw,           \* in-flight RequestWithdraw calls
    listener,           \* the chain subscriber's loop (one log at a time)
    sweep,              \* the result-sync run
    eventOdds,          \* table event_odds
    eventRows,          \* table events: title and start_time of each row
    canonicalEvents,    \* table canonical_events
    eventPlatformLinks, \* table event_platform_links
    feed,               \* the chain subscription of the listener
    pick,               \* the last best-venue selection: its input and its answer
    tickerCache,        \* the Kalshi adapter's sports-series cache and its callers
    stream,             \* a streaming sync run: producer, channel and consumer
    saveTx,             \* the transaction of a SaveEvents call
    receiptWait         \* the receipt loop of a ReleaseFunds call

store == <<contractEvents, orders, settlementRecords>>

chain == <<venueOrders, releaseSent, released, lateReleased>>

catalog == <<eventRows, canonicalEvents, eventPlatformLinks>>

\* the state of the order service, its callers and the catalogue
core == <<contractEvents, orders, settlementRecords, venueOrders, releaseSent,
          released, lateReleased, delivered, now, place, unfreeze, withdraw,
          listener, sweep, eventOdds, eventRows, canonicalEvents,
          eventPlatformLinks>>

\* the state of the background workers
aux == <<feed, pick, tickerCache, stream, saveTx, receiptWait>>

vars == <<contractEvents, orders, settlementRecords, venueOrders, releaseSent,
          released, lateReleased, delivered, now, place, unfreeze, withdraw, listener, sweep,
          eventOdds, eventRows, canonicalEvents, eventPlatformLinks, feed,
          pick, tickerCache, stream, saveTx, receiptWait>>

\* prep: the prepare response the caller holds; lockedOdds: the request's
\* locked_odds (0 when omitted); msgExpired: the request carried a prepared
\* message whose expires_at had passed when the call began; sentOdds: the
\* price of the order the venue took (0 when none); fetched: the rows the
\* live fetchers answered in steps 2-4, kept for the write-back of step 9;
\* signedFor: the message_to_sign of the request; eventUUID, betOption: the
\* request's event_uuid and bet_option, read in steps 2-4;
\* afterRelease: the call began after a releaseFunds transaction for its
\* contract_order_id had succeeded on chain and the request_unfreeze that
\* sent it was over
IdlePlace ==
    [pc |-> "idle", coid |-> "", eventID |-> 0,
     signed |-> FALSE, sigValid |-> FALSE,
     wallet |-> "", amount |-> 0, best |-> NoBest, result |-> "",
     prep |-> NoPrepared, lockedOdds |-> 0, msgExpired |-> FALSE,
     sentOdds |-> 0, fetched |-> <<>>, afterRelease |-> FALSE,
     signedFor |-> NoMessage, eventUUID |-> "", betOption |-> ""]

\* afterSuccess: the call began after a request_unfreeze on the same
\* contract_order_id had its release confirmed and returned
IdleUnfreeze ==
    [pc |-> "idle", coid |-> "", amount |-> 0, afterSuccess |-> FALSE,
     result |-> ""]

IdleWithdraw == [pc |-> "idle", orderUUID |-> "", platformID |-> 0, result |-> ""]

\* between two logs the record keeps the last log handled (orderUUID, txHash),
\* what its callback returned (result) and whether that log had been handed
\* to the listener before (redelivered)
IdleListener ==
    [pc |-> "idle", orderUUID |-> "", txHash |-> "", redelivered |-> FALSE,
     result |-> ""]

\* subscription: "open" while ChainSubscriber.Run is in its loop, "exited"
\* once it has returned; pushed: the logs the node sent to the subscription;
\* missed: the logs emitted while no subscription was open
OpenFeed == [subscription |-> "open", pushed |-> {}, missed |-> {}]

\* result: what FetchEventResult answered for the event of the run
\* concurrent callers of getSportsSeriesTickers on one adapter
TickerCallers == {"r1", "r2"}

\* the adapter as NewKalshiAdapter leaves it: nothing cached, no call running
EmptyTickerCache ==
    [sportsTickers |-> <<>>, sportsTickersAt |-> 0, clock |-> 0,
     pc |-> [c \in TickerCallers |-> "idle"],
     out |-> [c \in TickerCallers |-> "none"]]

\* a streaming run about to start: nothing fetched, nothing in the channel
NewStream ==
    [pc |-> "start", next |-> 1, seen |-> {}, batch |-> <<>>, total |-> 0,
     err |-> "", channel |-> <<>>, saving |-> <<>>, saveErr |-> FALSE,
     saved |-> {}, handed |-> <<>>, fetches |-> 0, fetched |-> {},
     result |-> ""]

\* the events and event_odds tables with no row
NoTables == [events |-> {}, odds |-> {}]

\* no SaveEvents call made yet, nothing stored
NoSave ==
    [pc |-> "idle", stored |-> NoTables, tx |-> NoTables, before |-> NoTables,
     dropped |-> NoTables, events |-> {}, odds |-> {}, result |-> "",
     failedAt |-> "", calls |-> 0]

\* ReleaseFunds before its transaction is sent
NoReceiptWait ==
    [pc |-> "idle", i |-> 0, polls |-> 0, waited |-> 0, cancelled |-> FALSE,
     pollsAfterCancel |-> 0, result |-> ""]

\* no selection made yet
NoPick == [odds |-> <<>>, betOption |-> "", best |-> [found |-> FALSE]]

IdleSweep == [pc |-> "idle", todo |-> {}, result |-> ""]

InitTables ==
    /\ contractEvents = {}
    /\ orders = {}
    /\ settlementRecords = {}
    /\ venueOrders = [b \in BetIds |-> 0]
    /\ releaseSent = [b \in BetIds |-> 0]
    /\ released = [b \in BetIds |-> 0]
    /\ lateReleased = [b \in BetIds |-> 0]
    /\ delivered = {}
    /\ now = 0
    /\ place = [p \in PlaceCallers |-> IdlePlace]
    /\ unfreeze = [u \in UnfreezeCallers |-> IdleUnfreeze]
    /\ withdraw = [w \in WithdrawCallers |-> IdleWithdraw]
    /\ listener = IdleListener
    /\ sweep = IdleSweep
    /\ eventOdds = {}
    /\ canonicalEvents = {}
    /\ eventPlatformLinks = {}
    /\ feed = OpenFeed
    /\ pick = NoPick
    /\ tickerCache = EmptyTickerCache
    /\ stream = NewStream
    /\ saveTx = NoSave
    /\ receiptWait = NoReceiptWait

\* the two rows of events carry one title and one start time
Init ==
    /\ InitTables
    /\ eventRows = [id \in {e.ID : e \in Events} |-> [Title |-> <<"a">>, StartTime |-> 0]]

(* --------------------------- repository queries -------------------------- *)

\* WHERE contract_order_id = ? AND processed = false AND
\* event_type = 'DepositSuccess' AND refunded_at IS NULL
GetUnprocessedByContractOrderID(coid) ==
    {ce \in contractEvents :
        ce.contract_order_id = coid /\ ~ce.processed /\ ~ce.refunded}

GetContractEventByContractOrderID(coid) ==
    {ce \in contractEvents : ce.contract_order_id = coid}

GetByUUID(orderUUID) == {o \in orders : o.order_uuid = orderUUID}

ListOrdersByEventID(eventID) == {o \in orders : o.event_id = eventID}

\* UPDATE contract_events SET processed = true ... WHERE contract_order_id = ?
UpdateProcessedByContractOrderID(coid) ==
    {IF ce.contract_order_id = coid THEN [ce EXCEPT !.processed = TRUE] ELSE ce
        : ce \in contractEvents}

\* UPDATE contract_events SET refunded_at = now WHERE contract_order_id = ?
MarkRefundedByContractOrderID(coid) ==
    {IF ce.contract_order_id = coid THEN [ce EXCEPT !.refunded = TRUE] ELSE ce
        : ce \in contractEvents}

\* UPDATE orders SET status = ? WHERE order_uuid = ?
UpdateOrderStatus(orderUUID, status) ==
    {IF o.order_uuid = orderUUID THEN [o EXCEPT !.status = status] ELSE o
        : o \in orders}

\* UPDATE orders SET settlement_tx_hash = ?, status = 'settled' WHERE order_uuid = ?
UpdateOrderSettlement(orderUUID, settlementTxHash) ==
    {IF o.order_uuid = orderUUID
        THEN [o EXCEPT !.status = "settled", !.settlement_tx_hash = settlementTxHash]
        ELSE o
        : o \in orders}

\* the unique indexes of contract_events: tx_hash and contract_order_id
ContractEventInsertable(ce) ==
    \A x \in contractEvents :
        x.tx_hash # ce.tx_hash /\ x.contract_order_id # ce.contract_order_id

\* the unique index of orders: order_uuid
OrderInsertable(o) == \A x \in orders : x.order_uuid # o.order_uuid

\* the unique index of settlement_records: tx_hash
SettlementRecordInsertable(r) == \A x \in settlementRecords : x.tx_hash # r.tx_hash

(* ------------------------------ escrow vault ----------------------------- *)

RECURSIVE SumAmount(_)
SumAmount(logs) ==
    IF logs = {} THEN 0
    ELSE LET l == CHOOSE x \in logs : TRUE
         IN l.amount + SumAmount(logs \ {l})

\* lockedAmount[betId] of the vault: lockFunds adds the amount of every lock,
\* releaseFunds subtracts the released amount (always the recorded deposit)
lockedAmount(betId) ==
    LET recorded == {ce.deposit_amount : ce \in GetContractEventByContractOrderID(betId)}
        deposit == IF recorded = {} THEN 0 ELSE CHOOSE a \in recorded : TRUE
    IN SumAmount({l \in delivered : l.betId = betId}) - (released[betId] + lateReleased[betId]) * deposit

(* ----------------------------- chain listener ---------------------------- *)

\* handleFundsLocked -> OnDepositSuccess -> SaveDepositSuccess: one INSERT;
\* a unique violation is returned as an error and only logged by Run
SaveDepositSuccess(log) ==
    LET ce == [tx_hash |-> log.TxHash, contract_order_id |-> log.betId,
               user_wallet |-> log.from, deposit_amount |-> log.amount,
               processed |-> FALSE, refunded |-> FALSE]
    IN IF ContractEventInsertable(ce) THEN contractEvents \cup {ce}
       ELSE contractEvents

\* what ContractListener.OnDepositSuccess returns: the error of the INSERT
SaveContractEventError(log) ==
    IF SaveDepositSuccess(log) = contractEvents THEN "duplicate_key" ELSE "ok"

\* the subscriber hands one FundsLocked log of logs to the listener
OnDepositSuccess(logs) ==
    \E log \in logs :
        /\ listener.pc = "idle"
        /\ contractEvents' = SaveDepositSuccess(log)
        /\ delivered' = delivered \cup {log}
        /\ listener' = [IdleListener EXCEPT
                            !.orderUUID = log.betId, !.txHash = log.TxHash,
                            !.redelivered = log \in delivered,
                            !.result = SaveContractEventError(log)]
        /\ UNCHANGED <<aux, catalog, eventOdds, orders, settlementRecords, chain, now, place, unfreeze,
                       withdraw, sweep>>

\* OnSettlementCompleted, statement 1: SELECT the order; a missing order is
\* an error the subscriber only logs
SettleGetOrder(logs) ==
    \E log \in logs :
        /\ listener.pc = "idle"
        /\ listener' = [IdleListener EXCEPT
                            !.orderUUID = log.betId, !.txHash = log.TxHash,
                            !.pc = IF GetByUUID(log.betId) = {} THEN "idle" ELSE "update",
                            !.result = IF GetByUUID(log.betId) = {} THEN "order_missing"
                                       ELSE ""]
        /\ UNCHANGED <<aux, catalog, eventOdds, store, chain, delivered, now, place, unfreeze, withdraw, sweep>>

\* statement 2: UpdateOrderSettlement, whatever the order's status is
SettleUpdateOrder ==
    /\ listener.pc = "update"
    /\ orders' = UpdateOrderSettlement(listener.orderUUID, listener.txHash)
    /\ listener' = [listener EXCEPT !.pc = "record"]
    /\ UNCHANGED <<aux, catalog, eventOdds, contractEvents, settlementRecords, chain, delivered, now,
                   place, unfreeze, withdraw, sweep>>

\* statement 3: INSERT the settlement record; a duplicate tx_hash is an error
\* the subscriber only logs
SettleCreateRecord ==
    /\ listener.pc = "record"
    /\ LET record == [order_uuid |-> listener.orderUUID, tx_hash |-> listener.txHash]
       IN settlementRecords' = IF SettlementRecordInsertable(record)
                                 THEN settlementRecords \cup {record}
                                 ELSE settlementRecords
    /\ listener' = [listener EXCEPT
                        !.pc = "idle",
                        !.result = IF settlementRecords' = settlementRecords
                                     THEN "duplicate_key" ELSE "ok"]
    /\ UNCHANGED <<aux, catalog, eventOdds, contractEvents, orders, chain, delivered, now, place,
                   unfreeze, withdraw, sweep>>

(* ------------------------- PlaceOrderFromFrontend ------------------------ *)

\* a handler that answers every failed deposit lookup alike
DepositStateError_Unclassified(coid) == "not_found"

\* error of a call whose GetUnprocessedByContractOrderID found no row
DepositStateError(coid) ==
    IF \E ce \in GetContractEventByContractOrderID(coid) : ce.processed
        THEN "already_placed"
    ELSE IF \E ce \in GetContractEventByContractOrderID(coid) : ce.refunded
        THEN "already_refunded"
    ELSE "not_found"

\* the request's optional amount against the deposit, 0.01 tolerance
AmountError(reqAmount, amount) ==
    IF reqAmount > 0 /\ amount > 0 /\ (reqAmount - amount > 1 \/ amount - reqAmount > 1)
        THEN "amount_mismatch"
    ELSE IF amount <= 0 THEN "invalid_amount"
    ELSE ""

\* what a valid signed request is: a personal_sign of exactly this message by
\* the deposit's wallet, well-formed and not past its expiry
ValidPersonalSign(userWallet, messageToSign, sig, nowSec) ==
    /\ sig.kind = "sig"
    /\ sig.signer = userWallet
    /\ sig.signedMsg = messageToSign
    /\ messageToSign.nparts >= 6
    /\ messageToSign.expiresOk
    /\ messageToSign.expiresAt >= nowSec

\* requests: contract_order_id, whether event_uuid and bet_option are filled,
\* message_to_sign, signature, optional amount, optional locked_odds
UnsignedRequests(coids) ==
    [coid : coids, fieldsPresent : {TRUE}, msg : {NoMessage},
     sig : {NoSignature}, amount : {0}, lockedOdds : {0}]

SignedRequests(coids) ==
    UNION {[coid : coids, fieldsPresent : BOOLEAN, msg : {m},
            sig : SignaturesFor(m), amount : ReqAmounts, lockedOdds : {0}]
                : m \in Messages}

\* the requests of a client that holds the prepare response prep for coid:
\* it sends the prepared message, signed by some wallet or unsigned, and the
\* prepared locked_odds or none
PreparedRequests(coid, prep) ==
    [coid : {coid}, fieldsPresent : {TRUE}, msg : {prep.msg},
     sig : {NoSignature} \cup
           [kind : {"sig"}, signer : Wallets, signedMsg : {prep.msg}],
     amount : {0}, lockedOdds : {0, prep.lockedOdds}]

PlaceFail(p, coid, err) ==
    place' = [place EXCEPT ![p] =
        [IdlePlace EXCEPT !.pc = "done", !.coid = coid, !.result = err]]

\* step 1 of the handler on request req: required fields, the deposit
\* lookup, the signature and the amount check; nothing is written
PlaceStart(p, req) ==
    /\ IF ~req.fieldsPresent THEN PlaceFail(p, req.coid, "validation")
        ELSE IF GetUnprocessedByContractOrderID(req.coid) = {}
            THEN PlaceFail(p, req.coid, DepositStateError(req.coid))
        ELSE \E ce \in GetUnprocessedByContractOrderID(req.coid) :
                LET sigErr == IF req.sig.kind # "none"
                                THEN verifyOrderSignature(ce.user_wallet, req.msg,
                                                          req.sig, now)
                                ELSE ""
                    amtErr == AmountError(req.amount, ce.deposit_amount)
                    call == [IdlePlace EXCEPT
                                !.coid = req.coid,
                                !.signed = req.sig.kind # "none",
                                !.sigValid = ValidPersonalSign(ce.user_wallet, req.msg,
                                                               req.sig, now),
                                !.wallet = ce.user_wallet,
                                !.amount = ce.deposit_amount,
                                !.lockedOdds = req.lockedOdds,
                                !.signedFor = req.msg,
                                !.afterRelease =
                                    /\ released[req.coid] + lateReleased[req.coid] > 0
                                    /\ \A v \in UnfreezeCallers :
                                          ~(unfreeze[v].coid = req.coid
                                              /\ unfreeze[v].pc = "mark"),
                                !.msgExpired = /\ req.msg.nparts >= 6
                                               /\ req.msg.expiresOk
                                               /\ now > req.msg.expiresAt]
                IN IF sigErr # "" THEN
                       place' = [place EXCEPT ![p] =
                           [call EXCEPT !.pc = "done", !.result = "signature_invalid"]]
                   ELSE IF amtErr # "" THEN
                       place' = [place EXCEPT ![p] =
                           [call EXCEPT !.pc = "done", !.result = amtErr]]
                   ELSE place' = [place EXCEPT ![p] = [call EXCEPT !.pc = "odds"]]
    /\ UNCHANGED <<aux, catalog, eventOdds, store, chain, delivered, now, unfreeze, withdraw, listener, sweep>>

\* a place call with any of the given requests
PlaceBegin(p, requests) ==
    /\ place[p].pc = "idle"
    /\ \E req \in requests : PlaceStart(p, req)

\* a place call by a client that holds a prepare response
PlacePrepared(p) ==
    /\ place[p].pc = "prepared"
    /\ \E req \in PreparedRequests(place[p].coid, place[p].prep) : PlaceStart(p, req)

\* what steps 2-4 read: the request's event_uuid and bet_option, the odds of
\* the linked venues, and whether the fiat provider converts. live tells
\* where the odds came from: the venues' live fetchers, or, when those
\* answered nothing, the rows of event_odds
Markets(uuids, betOptions, oddsInputs) ==
    [uuid : uuids, betOption : betOptions, odds : oddsInputs, fiatOk : BOOLEAN,
     live : {FALSE}]

LiveMarkets(uuids, betOptions, oddsInputs) ==
    [uuid : uuids, betOption : betOptions, odds : oddsInputs, fiatOk : BOOLEAN,
     live : {TRUE}]

\* fetchedPerLink as the rows of step 9: each live row with the event of its
\* venue among the linked events
FetchedRows(odds) ==
    [i \in 1..Len(odds) |->
        LET e == CHOOSE x \in Events : x.PlatformID = odds[i].PlatformID
        IN [EventID |-> e.ID, PlatformID |-> e.PlatformID,
            PlatformEventID |-> e.PlatformEventID,
            OptionName |-> odds[i].OptionName, Price |-> odds[i].Price]]

\* steps 2-4: resolve the event, fetch the live odds of the linked venues,
\* pick the best venue, and convert to USD when it is the fiat venue
PlaceFetchOdds(p, markets) ==
    /\ place[p].pc = "odds"
    /\ \E m \in markets :
        LET best == pickBestOdds(m.odds, m.betOption)
        IN IF m.uuid \notin EventUUIDs THEN
               place' = [place EXCEPT ![p].pc = "done", ![p].result = "event_not_found"]
           ELSE IF ~best.found THEN
               place' = [place EXCEPT ![p].pc = "done", ![p].result = "no_odds"]
           ELSE IF best.platformID = kalshiPlatformID /\ ~m.fiatOk THEN
               place' = [place EXCEPT ![p].pc = "done", ![p].result = "fiat_error"]
           ELSE place' = [place EXCEPT ![p].pc = "venue", ![p].best = best,
                                       ![p].eventUUID = m.uuid,
                                       ![p].betOption = m.betOption,
                                       ![p].eventID = GetEventByUUID(m.uuid).ID,
                                       ![p].fetched = IF m.live THEN FetchedRows(m.odds)
                                                      ELSE <<>>]
    /\ UNCHANGED <<aux, catalog, eventOdds, store, chain, delivered, now, unfreeze, withdraw, listener, sweep>>

\* step 6: adapter.PlaceOrder on the chosen venue takes the price and the
\* venue accepts the order
PlaceVenueOk(p) ==
    /\ place[p].pc = "venue"
    /\ venueOrders[place[p].coid] < MaxVenueOrders
    /\ LET a == AdapterPrice(place[p].best.platformID,
                             SubmittedOdds(place[p].lockedOdds, place[p].best.price))
       IN /\ a.ok
          /\ place' = [place EXCEPT ![p].pc = "create", ![p].sentOdds = a.price]
    /\ venueOrders' = [venueOrders EXCEPT ![place[p].coid] = @ + 1]
    /\ UNCHANGED <<aux, catalog, eventOdds, store, releaseSent, released, lateReleased, delivered, now,
                   unfreeze,
                   withdraw, listener, sweep>>

\* a handler that logs the venue's error and goes on to step 7
PlaceVenueFail_Continue(p) ==
    /\ place[p].pc = "venue"
    /\ place' = [place EXCEPT ![p].pc = "create"]
    /\ UNCHANGED <<aux, catalog, eventOdds, store, chain, delivered, now, unfreeze, withdraw, listener, sweep>>

\* step 6: adapter.PlaceOrder returns an error and the handler returns it
PlaceVenueFail(p) ==
    /\ place[p].pc = "venue"
    /\ place' = [place EXCEPT ![p].pc = "done", ![p].result = "venue_error"]
    /\ UNCHANGED <<aux, catalog, eventOdds, store, chain, delivered, now, unfreeze, withdraw, listener, sweep>>

\* the Order row of step 7; actual_profit is left to the column default, and
\* no statement of the program writes it afterwards
NewOrder(c) ==
    [order_uuid |-> c.coid, user_wallet |-> c.wallet, event_id |-> c.eventID,
     platform_id |-> c.best.platformID, bet_option |-> c.best.optionName,
     bet_amount |-> c.amount, locked_odds |-> c.best.price,
     actual_profit |-> 0,
     status |-> "placed", settlement_tx_hash |-> ""]

\* step 7: INSERT INTO orders; a failed insert aborts the call
PlaceCreateOrder(p) ==
    /\ place[p].pc = "create"
    /\ IF OrderInsertable(NewOrder(place[p]))
         THEN /\ orders' = orders \cup {NewOrder(place[p])}
              /\ place' = [place EXCEPT ![p].pc = "mark"]
         ELSE /\ orders' = orders
              /\ place' = [place EXCEPT ![p].pc = "done", ![p].result = "create_failed"]
    /\ UNCHANGED <<aux, catalog, eventOdds, contractEvents, settlementRecords, chain, delivered, now,
                   unfreeze, withdraw, listener, sweep>>

\* step 8: mark the contract event processed; a store error here is only
\* logged and the call still returns the placed order. Step 9 follows when
\* live rows were fetched
PlaceMarkProcessed(p) ==
    /\ place[p].pc = "mark"
    /\ \E dbOk \in BOOLEAN :
        contractEvents' = IF dbOk THEN UpdateProcessedByContractOrderID(place[p].coid)
                          ELSE contractEvents
    /\ place' = IF place[p].fetched = <<>>
                  THEN [place EXCEPT ![p].pc = "done", ![p].result = "placed"]
                  ELSE [place EXCEPT ![p].pc = "writeback"]
    /\ UNCHANGED <<aux, catalog, eventOdds, orders, settlementRecords, chain, delivered, now, unfreeze,
                   withdraw, listener, sweep>>

\* the response leaves the handler
PlaceReturn(p) ==
    /\ place[p].pc = "done"
    /\ place' = [place EXCEPT ![p] = IdlePlace]
    /\ UNCHANGED <<aux, catalog, eventOdds, store, chain, delivered, now, unfreeze, withdraw, listener, sweep>>

(* ----------------------------- RequestUnfreeze --------------------------- *)

UnfreezeRequests(coids, wallets) == [coid : coids, wallet : wallets]

\* the deposit lookup, the optional wallet check and the amount check
UnfreezeBegin(u, requests) ==
    /\ unfreeze[u].pc = "idle"
    /\ \E req \in requests :
        LET call == [IdleUnfreeze EXCEPT
                        !.coid = req.coid,
                        !.afterSuccess =
                            /\ released[req.coid] > 0
                            /\ \A v \in UnfreezeCallers :
                                ~(unfreeze[v].coid = req.coid /\ unfreeze[v].pc = "mark")]
        IN IF GetUnprocessedByContractOrderID(req.coid) = {} THEN
               unfreeze' = [unfreeze EXCEPT ![u] =
                   [call EXCEPT !.pc = "done", !.result = "conflict_state"]]
           ELSE \E ce \in GetUnprocessedByContractOrderID(req.coid) :
               IF req.wallet # "" /\ ce.user_wallet # req.wallet THEN
                   unfreeze' = [unfreeze EXCEPT ![u] =
                       [call EXCEPT !.pc = "done", !.result = "wallet_mismatch"]]
               ELSE IF ce.deposit_amount <= 0 THEN
                   unfreeze' = [unfreeze EXCEPT ![u] =
                       [call EXCEPT !.pc = "done", !.result = "invalid_amount"]]
               ELSE unfreeze' = [unfreeze EXCEPT ![u] =
                       [call EXCEPT !.pc = "release", !.amount = ce.deposit_amount]]
    /\ UNCHANGED <<aux, catalog, eventOdds, store, chain, delivered, now, place, withdraw, listener, sweep>>

\* what chain.ReleaseFunds can meet: the transaction is not sent (bad id
\* length, RPC or signing error), it is mined with a successful receipt, it is
\* mined and reverted, or the wait for the receipt ends first (the polling
\* window runs out or the request's context is cancelled) and the
\* transaction is dropped ("timeout") or mined with success afterwards
\* ("late_success")
ReleaseOutcomes == {"not_sent", "success", "reverted", "timeout", "late_success"}

\* ReleaseFunds returning the hash of any mined transaction, without looking
\* at the receipt's status
ReleaseFundsError_AnyReceipt(outcome) ==
    IF outcome \in {"success", "reverted"} THEN "" ELSE "chain_error"

\* "" when ReleaseFunds returns the transaction hash, else its error
ReleaseFundsError(outcome) ==
    IF outcome = "success" THEN "" ELSE "chain_error"

\* chain.ReleaseFunds: send releaseFunds(betId, to, amount) and wait for the
\* receipt; the vault reverts a release larger than lockedAmount[betId]
UnfreezeRelease(u) ==
    /\ unfreeze[u].pc = "release"
    /\ \E outcome \in ReleaseOutcomes :
        LET coid == unfreeze[u].coid
            sent == outcome # "not_sent"
            mined == outcome \in {"success", "late_success"}
        IN /\ sent => releaseSent[coid] < MaxReleaseTx
           /\ mined => lockedAmount(coid) >= unfreeze[u].amount
           /\ releaseSent' = [releaseSent EXCEPT ![coid] = IF sent THEN @ + 1 ELSE @]
           /\ released' = [released EXCEPT ![coid] =
                              IF outcome = "success" THEN @ + 1 ELSE @]
           /\ lateReleased' = [lateReleased EXCEPT ![coid] =
                              IF outcome = "late_success" THEN @ + 1 ELSE @]
           /\ unfreeze' = IF ReleaseFundsError(outcome) = ""
                            THEN [unfreeze EXCEPT ![u].pc = "mark"]
                            ELSE [unfreeze EXCEPT ![u].pc = "done",
                                                  ![u].result = ReleaseFundsError(outcome)]
    /\ UNCHANGED <<aux, catalog, eventOdds, store, venueOrders, delivered, now, place, withdraw, listener, sweep>>

\* MarkRefundedByContractOrderID; a store error here is only logged and the
\* call still returns the transaction hash
UnfreezeMarkRefunded(u) ==
    /\ unfreeze[u].pc = "mark"
    /\ \E dbOk \in BOOLEAN :
        contractEvents' = IF dbOk THEN MarkRefundedByContractOrderID(unfreeze[u].coid)
                          ELSE contractEvents
    /\ unfreeze' = [unfreeze EXCEPT ![u].pc = "done", ![u].result = "ok"]
    /\ UNCHANGED <<aux, catalog, eventOdds, orders, settlementRecords, chain, delivered, now, place,
                   withdraw, listener, sweep>>

UnfreezeReturn(u) ==
    /\ unfreeze[u].pc = "done"
    /\ unfreeze' = [unfreeze EXCEPT ![u] = IdleUnfreeze]
    /\ UNCHANGED <<aux, catalog, eventOdds, store, chain, delivered, now, place, withdraw, listener, sweep>>

(* ----------------------------- RequestWithdraw --------------------------- *)

\* SELECT the order and check its status
WithdrawBegin(x, orderUUIDs) ==
    /\ withdraw[x].pc = "idle"
    /\ \E orderUUID \in orderUUIDs :
        LET call == [IdleWithdraw EXCEPT !.orderUUID = orderUUID]
        IN IF GetByUUID(orderUUID) = {} THEN
               withdraw' = [withdraw EXCEPT ![x] =
                   [call EXCEPT !.pc = "done", !.result = "not_found"]]
           ELSE \E o \in GetByUUID(orderUUID) :
               IF o.status # "settled" THEN
                   withdraw' = [withdraw EXCEPT ![x] =
                       [call EXCEPT !.pc = "done", !.result = "conflict_state"]]
               ELSE withdraw' = [withdraw EXCEPT ![x] =
                       [call EXCEPT !.pc = "update", !.platformID = o.platform_id]]
    /\ UNCHANGED <<aux, catalog, eventOdds, store, chain, delivered, now, place, unfreeze, listener, sweep>>

\* UpdateOrderStatus: withdrawn on the fiat venue (processKalshiWithdraw),
\* withdraw_requested otherwise
WithdrawUpdate(x) ==
    /\ withdraw[x].pc = "update"
    /\ orders' = UpdateOrderStatus(withdraw[x].orderUUID,
                    IF withdraw[x].platformID = kalshiPlatformID
                        THEN "withdrawn" ELSE "withdraw_requested")
    /\ withdraw' = [withdraw EXCEPT ![x].pc = "done", ![x].result = "ok"]
    /\ UNCHANGED <<aux, catalog, eventOdds, contractEvents, settlementRecords, chain, delivered, now,
                   place, unfreeze, listener, sweep>>

WithdrawReturn(x) ==
    /\ withdraw[x].pc = "done"
    /\ withdraw' = [withdraw EXCEPT ![x] = IdleWithdraw]
    /\ UNCHANGED <<aux, catalog, eventOdds, store, chain, delivered, now, place, unfreeze, listener, sweep>>

(* --------------------------- ResultSyncService.Run ----------------------- *)

\* FetchEventResult on an event the venue has closed with winner
\* venueResult ("" when no outcome stands at price 1): the Kalshi adapter
\* answers nothing, the Polymarket adapter the winner and "resolved"
FetchEventResult(e, venueResult) ==
    IF e.PlatformID = kalshiPlatformID THEN [result |-> "", status |-> ""]
    ELSE [result |-> venueResult, status |-> "resolved"]

\* one ended event of the run: the venue's result is fetched (an event for
\* which nothing is answered is skipped), the orders of the event are
\* listed, and the status each listed order will be given is decided from
\* the listed row
SweepListOrders(events, results) ==
    /\ sweep.pc = "idle"
    /\ \E e \in events, venueResult \in results :
        LET r == FetchEventResult(e, venueResult)
            result == r.result
            todo == {[order_uuid |-> o.order_uuid,
                      status |-> IF o.bet_option = result THEN "settlable"
                                 ELSE "settled"]
                        : o \in {x \in ListOrdersByEventID(e.ID) : x.status = "placed"}}
        IN /\ ~(r.result = "" /\ r.status = "")
           /\ sweep' = IF todo = {} THEN IdleSweep
                        ELSE [pc |-> "update", todo |-> todo, result |-> result]
    /\ UNCHANGED <<aux, catalog, eventOdds, store, chain, delivered, now, place, unfreeze, withdraw, listener>>

\* the loop body: one UpdateOrderStatus per listed order
SweepUpdateOrder ==
    /\ sweep.pc = "update"
    /\ \E t \in sweep.todo :
        /\ orders' = UpdateOrderStatus(t.order_uuid, t.status)
        /\ sweep' = IF sweep.todo = {t} THEN IdleSweep
                    ELSE [sweep EXCEPT !.todo = @ \ {t}]
    /\ UNCHANGED <<aux, catalog, eventOdds, contractEvents, settlementRecords, chain, delivered, now,
                   place, unfreeze, withdraw, listener>>

(* --------------------------------- clock --------------------------------- *)

Tick ==
    /\ now < MaxTime
    /\ now' = now + 1
    /\ UNCHANGED <<aux, catalog, eventOdds, store, chain, delivered, place, unfreeze, withdraw, listener, sweep>>

(* ---------------------------- specifications --------------------------- *)

LogsOf(txs, betIds) == {l \in FundsLockedLogs : l.TxHash \in txs /\ l.betId \in betIds}

OneVenueOdds == {<<[PlatformID |-> 1, OptionName |-> "Yes", OptionType |-> "", Price |-> 650]>>}

TwoVenueOdds ==
    {<<[PlatformID |-> 1, OptionName |-> "Yes", OptionType |-> "", Price |-> 650],
       [PlatformID |-> pl, OptionName |-> "Yes", OptionType |-> "", Price |-> pr]>>
        : pl \in PlatformIds, pr \in Prices}

\* place and request_unfreeze racing on one deposit
Next ==
    \/ OnDepositSuccess(LogsOf({"t1", "t2"}, {"b1"}))
    \/ \E p \in PlaceCallers :
        \/ PlaceBegin(p, UnsignedRequests({"b1"}))
        \/ PlaceFetchOdds(p, Markets({"1_a"}, {"YES"}, OneVenueOdds))
        \/ PlaceVenueOk(p)
        \/ PlaceVenueFail(p)
        \/ PlaceCreateOrder(p)
        \/ PlaceMarkProcessed(p)
        \/ PlaceReturn(p)
    \/ \E u \in UnfreezeCallers :
        \/ UnfreezeBegin(u, UnfreezeRequests({"b1"}, {"", "w2"}))
        \/ UnfreezeRelease(u)
        \/ UnfreezeMarkRefunded(u)
        \/ UnfreezeReturn(u)

Spec == Init /\ [][Next]_vars

\* the life of an order: place, result-sync sweeps, Settled logs, withdraw
NextOrder ==
    \/ OnDepositSuccess(LogsOf({"t1"}, {"b1"}))
    \/ PlaceBegin("p1", UnsignedRequests({"b1"}))
    \/ PlaceFetchOdds("p1", Markets({"1_a"}, {"YES"}, TwoVenueOdds))
    \/ PlaceVenueOk("p1")
    \/ PlaceVenueFail("p1")
    \/ PlaceCreateOrder("p1")
    \/ PlaceMarkProcessed("p1")
    \/ PlaceReturn("p1")
    \/ SettleGetOrder({l \in SettledLogs : l.betId = "b1"})
    \/ SettleUpdateOrder
    \/ SettleCreateRecord
    \/ SweepListOrders(Events, Results)
    \/ SweepUpdateOrder
    \/ \E x \in WithdrawCallers :
        \/ WithdrawBegin(x, {"b1"})
        \/ WithdrawUpdate(x)
        \/ WithdrawReturn(x)

SpecOrder == Init /\ [][NextOrder]_vars

\* one caller placing signed requests against live odds, with a clock
NextRouting ==
    \/ OnDepositSuccess(LogsOf({"t1"}, {"b1"}) \cup LogsOf({"t2"}, {"b2"}))
    \/ PlaceBegin("p1", SignedRequests(BetIds))
    \/ PlaceFetchOdds("p1", Markets(EventUUIDs \cup {"9_z"}, BetOptions, OddsInputs))
    \/ PlaceVenueOk("p1")
    \/ PlaceVenueFail("p1")
    \/ PlaceCreateOrder("p1")
    \/ PlaceMarkProcessed("p1")
    \/ PlaceReturn("p1")
    \/ Tick

SpecRouting == Init /\ [][NextRouting]_vars

\* the listener alone, fed any FundsLocked logs in any order, repeats included
NextIngest == OnDepositSuccess(FundsLockedLogs)

SpecIngest == Init /\ [][NextIngest]_vars

(* -------------------------------- properties ---------------------------- *)

\* C1: the statuses an order_uuid's Order takes follow the order state
\* machine: an Order starts as placed, and every change of status is one of
\* placed -> settlable, placed -> settled, settlable -> settled,
\* settled -> withdrawn, settled -> withdraw_requested
C1_StatusPathLegal ==
    [][ /\ \A n \in orders' :
            (\A o \in orders : o.order_uuid # n.order_uuid) => n.status = "placed"
        /\ \A o \in orders : \A n \in orders' :
            n.order_uuid = o.order_uuid =>
                \/ n.status = o.status
                \/ <<o.status, n.status>> \in
                      { <<"placed", "settlable">>, <<"placed", "settled">>,
                        <<"settlable", "settled">>, <<"settled", "withdrawn">>,
                        <<"settled", "withdraw_requested">> } ]_vars

\* C2: no Contract Event ever has processed = true together with
\* refunded_at set
C2_ProcessedXorRefunded ==
    \A ce \in contractEvents : ~(ce.processed /\ ce.refunded)

\* C3: once a place call on a contract_order_id has returned success there
\* is exactly one Order with that order_uuid and exactly one Contract Event
\* with that contract_order_id, and that Contract Event is processed
C3_PlaceSuccessOneToOne ==
    \A p \in PlaceCallers :
        (place[p].pc = "done" /\ place[p].result = "placed") =>
            /\ Cardinality(GetByUUID(place[p].coid)) = 1
            /\ Cardinality(GetContractEventByContractOrderID(place[p].coid)) = 1
            /\ \A ce \in GetContractEventByContractOrderID(place[p].coid) : ce.processed

\* C4: at all times every Order has exactly one DepositSuccess Contract Event
\* whose contract_order_id is the Order's order_uuid, and it is processed
C4_OrderHasProcessedDeposit ==
    \A o \in orders :
        /\ Cardinality(GetContractEventByContractOrderID(o.order_uuid)) = 1
        /\ \A ce \in GetContractEventByContractOrderID(o.order_uuid) : ce.processed

\* C5: the persisted Contract Events are the delivered FundsLocked logs
\* de-duplicated by tx_hash: every delivered tx_hash is stored exactly once,
\* and every stored row is a delivered log
C5_PersistedIsDeliveredByTxHash ==
    /\ \A t \in {l.TxHash : l \in delivered} :
        Cardinality({ce \in contractEvents : ce.tx_hash = t}) = 1
    /\ \A ce \in contractEvents :
        \E l \in delivered :
            l.TxHash = ce.tx_hash /\ l.betId = ce.contract_order_id

\* C6: a place call that supplies a signature gets past the signature check
\* exactly when the signature is a personal_sign of message_to_sign by the
\* deposit's wallet whose expires_at has not passed; otherwise it ends with
\* signature_invalid, and the step that rejects it leaves the Contract
\* Events, the Orders and the venue untouched
C6_SignatureBinding ==
    /\ [](\A p \in PlaceCallers :
            (place[p].signed /\ place[p].pc # "idle") =>
                (place[p].result = "signature_invalid" <=> ~place[p].sigValid))
    /\ [][\A p \in PlaceCallers :
            (place'[p].result = "signature_invalid" /\ place[p].result # "signature_invalid")
                => UNCHANGED <<aux, catalog, eventOdds, store, chain>>]_vars

\* a signed call was rejected after the clock had advanced, and nothing
\* was written for its deposit
C6_Witness ==
    \E p \in PlaceCallers :
        /\ place[p].signed
        /\ place[p].result = "signature_invalid"
        /\ now > 0
        /\ GetUnprocessedByContractOrderID(place[p].coid) # {}
        /\ GetByUUID(place[p].coid) = {}

\* C7: a request_unfreeze that begins after a request_unfreeze on the same
\* contract_order_id has succeeded ends with conflict_state at its first
\* check, so it neither sends a releaseFunds transaction nor writes
C7_NoSecondUnfreeze ==
    \A u \in UnfreezeCallers :
        unfreeze[u].afterSuccess =>
            (unfreeze[u].pc = "done" /\ unfreeze[u].result = "conflict_state")

\* C8: a venue failure aborts place.  The step that meets the failure ends
\* the call with venue_error and writes nothing; a contract_order_id for
\* which no venue accepted an order has no Order row and an unprocessed
\* Contract Event; and after a venue_error, with nothing else accepted or
\* released for the id, the deposit is still DEPOSITED, which is what place
\* and request_unfreeze require
C8_VenueFailureAborts ==
    /\ [](\A c \in BetIds :
            venueOrders[c] = 0 =>
                /\ GetByUUID(c) = {}
                /\ \A ce \in GetContractEventByContractOrderID(c) : ~ce.processed)
    /\ [](\A p \in PlaceCallers :
            (place[p].result = "venue_error" /\ venueOrders[place[p].coid] = 0
                /\ released[place[p].coid] = 0) =>
                    GetUnprocessedByContractOrderID(place[p].coid) # {})
    /\ [][\A p \in PlaceCallers :
            (place[p].pc = "venue" /\ place'[p].pc # "venue"
                /\ venueOrders'[place[p].coid] = venueOrders[place[p].coid]) =>
                    /\ place'[p].pc = "done" /\ place'[p].result = "venue_error"
                    /\ UNCHANGED <<aux, catalog, eventOdds, store, chain>>]_vars

\* one call ended with venue_error, the deposit is untouched, and another
\* place on the same id has passed the deposit check
C8_Witness ==
    \E p \in PlaceCallers, q \in PlaceCallers :
        /\ place[p].result = "venue_error"
        /\ place[q].pc = "odds" /\ place[q].coid = place[p].coid
        /\ venueOrders[place[p].coid] = 0
        /\ GetByUUID(place[p].coid) = {}
        /\ GetUnprocessedByContractOrderID(place[p].coid) # {}

\* C9: a Contract Event has refunded_at set only if a releaseFunds
\* transaction for its contract_order_id had a successful receipt; a call
\* whose release ends in an error (reverted receipt included) returns
\* chain_error and that step changes no persisted state
C9_RefundedOnlyAfterSuccess ==
    /\ [](\A ce \in contractEvents :
            ce.refunded => released[ce.contract_order_id] > 0)
    /\ [][\A u \in UnfreezeCallers :
            (unfreeze[u].pc = "release" /\ unfreeze'[u].pc # "release"
                /\ released'[unfreeze[u].coid] = released[unfreeze[u].coid]) =>
                    /\ unfreeze'[u].pc = "done" /\ unfreeze'[u].result = "chain_error"
                    /\ UNCHANGED store]_vars

\* a release was sent and did not succeed: the call returned chain_error and
\* the deposit is neither refunded nor processed
C9_Witness ==
    \E u \in UnfreezeCallers :
        /\ unfreeze[u].result = "chain_error"
        /\ releaseSent[unfreeze[u].coid] > 0
        /\ released[unfreeze[u].coid] = 0
        /\ lateReleased[unfreeze[u].coid] = 0
        /\ GetUnprocessedByContractOrderID(unfreeze[u].coid) # {}

\* C10: the locked_odds of every Order row is within [0.01, 0.99]
C10_LockedOddsInRange ==
    \A o \in orders : o.locked_odds >= 10 /\ o.locked_odds <= 990

\* C11: a FundsLocked log that is handed to the listener again is a no-op
\* without an error: the callback returns no error and exactly one Contract
\* Event row holds the log's tx_hash
C11_RedeliveryReportsNoError ==
    (listener.pc = "idle" /\ listener.redelivered) =>
        /\ listener.result = "ok"
        /\ Cardinality({ce \in contractEvents : ce.tx_hash = listener.txHash}) = 1

\* C12: re-delivery of a Settled log that was already ingested (its
\* Settlement Record exists) is absorbed: no step of the listener handling it
\* changes the Order's status or settlement_tx_hash or the Settlement Records
C12_SettledRedeliveryAbsorbed ==
    [][ ( /\ listener.pc \in {"update", "record"}
          /\ listener' # listener
          /\ \E r \in settlementRecords :
                r.tx_hash = listener.txHash /\ r.order_uuid = listener.orderUUID )
        => /\ settlementRecords' = settlementRecords
           /\ \A o \in GetByUUID(listener.orderUUID) :
                \E n \in orders' :
                    /\ n.order_uuid = o.order_uuid
                    /\ n.status = o.status
                    /\ n.settlement_tx_hash = o.settlement_tx_hash ]_vars

\* C13: calls on one contract_order_id are serialized: at no time have two
\* place or request_unfreeze calls on the same contract_order_id both passed
\* the DEPOSITED check and not yet finished
C13_OneCallPastDepositCheck ==
    \A c \in BetIds :
        Cardinality({p \in PlaceCallers :
                        place[p].coid = c
                        /\ place[p].pc \in {"odds", "venue", "create", "mark"}})
        + Cardinality({u \in UnfreezeCallers :
                        unfreeze[u].coid = c
                        /\ unfreeze[u].pc \in {"release", "mark"}})
        <= 1

(* ---------------- settlement of an order whose log came early ------------ *)

\* the steps of a place call once it has begun
PlaceProgress(p, markets) ==
    \/ PlaceFetchOdds(p, markets)
    \/ PlaceVenueOk(p)
    \/ PlaceVenueFail(p)
    \/ PlaceCreateOrder(p)
    \/ PlaceMarkProcessed(p)
    \/ PlaceReturn(p)

\* the steps of OnSettlementCompleted once it has found the order
SettleProgress == SettleUpdateOrder \/ SettleCreateRecord

NextSettle ==
    \/ OnDepositSuccess(LogsOf({"t1"}, {"b1"}))
    \/ PlaceBegin("p1", UnsignedRequests({"b1"}))
    \/ PlaceProgress("p1", Markets({"1_a"}, {"YES"}, OneVenueOdds))
    \/ SettleGetOrder({l \in SettledLogs : l.betId = "b1"})
    \/ SettleProgress

\* every handler that has begun runs to its end; when the chain hands a log
\* to the subscription, and when a client calls, is up to them
SpecSettle ==
    /\ Init
    /\ [][NextSettle]_vars
    /\ WF_vars(PlaceProgress("p1", Markets({"1_a"}, {"YES"}, OneVenueOdds)))
    /\ WF_vars(SettleProgress)

\* C14: a Settled log that was dropped because its Order did not exist yet is
\* processed again: once the Order exists, it eventually is settled and has
\* its Settlement Record
C14_DroppedSettledLogIsRetried ==
    \A b \in BetIds :
        (listener.result = "order_missing" /\ listener.orderUUID = b
            /\ GetByUUID(b) # {})
        ~> (/\ \E o \in GetByUUID(b) : o.status = "settled"
            /\ \E r \in settlementRecords : r.order_uuid = b)

(* ----------------------- PrepareOrderFromFrontend ------------------------ *)

PrepareRequests(coids) == [coid : coids, fieldsPresent : BOOLEAN]

\* the whole handler: it reads the deposit, resolves the event, fetches the
\* live odds and answers; it writes nothing. The caller keeps the response
\* (prep); best is the best venue price the response was computed from
PrepareOrder(p, requests, markets) ==
    /\ place[p].pc = "idle"
    /\ \E req \in requests, m \in markets :
        LET best == pickBestOdds(m.odds, m.betOption)
        IN IF ~req.fieldsPresent THEN PlaceFail(p, req.coid, "validation")
           ELSE IF GetUnprocessedByContractOrderID(req.coid) = {}
               THEN PlaceFail(p, req.coid, DepositStateError(req.coid))
           ELSE IF m.uuid \notin EventUUIDs
               THEN PlaceFail(p, req.coid, "event_not_found")
           ELSE IF ~best.found THEN PlaceFail(p, req.coid, "no_odds")
           ELSE place' = [place EXCEPT ![p] =
                   [IdlePlace EXCEPT
                       !.pc = "prepared", !.coid = req.coid, !.best = best,
                       !.prep = [lockedOdds |-> clampOddsForSign(best.price),
                                 msg |-> PreparedMessage(req.coid, m.uuid, m.betOption,
                                            clampOddsForSign(best.price), now)]]]
    /\ UNCHANGED <<aux, catalog, eventOdds, store, chain, delivered, now, unfreeze, withdraw, listener, sweep>>

\* last instant of the clock of SpecPrepare
MaxPrepareTime == 301

\* time passes between two steps
Wait(durations) ==
    /\ \E d \in durations :
        /\ now + d <= MaxPrepareTime
        /\ now' = now + d
    /\ UNCHANGED <<aux, catalog, eventOdds, store, chain, delivered, place, unfreeze, withdraw, listener, sweep>>

\* one venue quoting the option at some price
SingleVenueOdds ==
    {<<[PlatformID |-> pl, OptionName |-> "Yes", OptionType |-> "", Price |-> pr]>>
        : pl \in PlatformIds, pr \in Prices}

\* a client that prepares and then places, or places at once, while the
\* deposit may be unfrozen and time passes
NextPrepare ==
    \/ OnDepositSuccess(LogsOf({"t1"}, {"b1"}))
    \/ PrepareOrder("p1", PrepareRequests(BetIds),
                    Markets({"1_a"}, {"YES", "maybe"}, SingleVenueOdds))
    \/ PlacePrepared("p1")
    \/ PlaceBegin("p1", UnsignedRequests(BetIds))
    \/ PlaceProgress("p1", Markets({"1_a"}, {"YES"}, SingleVenueOdds))
    \/ \E u \in UnfreezeCallers :
        \/ UnfreezeBegin(u, UnfreezeRequests({"b1"}, {""}))
        \/ UnfreezeRelease(u)
        \/ UnfreezeMarkRefunded(u)
        \/ UnfreezeReturn(u)
    \/ Wait({prepareOrderExpirySec, prepareOrderExpirySec + 1})

SpecPrepare == Init /\ [][NextPrepare]_vars

\* C15: when the best venue price is 1.00 prepare answers locked_odds 0.99,
\* and a place call that is about to hand a price of 1.00 or more (or of 0 or
\* less) to the venue adapter has it clamped to 0.99 (0.01) and sent: the
\* adapter takes the order at a price within 0.01..0.99
C15_VenuePriceClamped ==
    \A p \in PlaceCallers :
        /\ (place[p].pc = "prepared" /\ place[p].best.price = 1000)
               => place[p].prep.lockedOdds = 990
        /\ place[p].pc = "venue" =>
               LET submitted == SubmittedOdds(place[p].lockedOdds, place[p].best.price)
                   a == AdapterPrice(place[p].best.platformID, submitted)
               IN /\ submitted >= 1000 => (a.ok /\ a.price = 990)
                  /\ submitted <= 0 => (a.ok /\ a.price = 10)


\* C16: a well-formed prepare or place call on a contract_order_id that has
\* no Contract Event in DEPOSITED state (unprocessed and not refunded) fails:
\* with already_placed only when a Contract Event of it is processed, with
\* already_refunded only when one has refunded_at set, with not_found only
\* when it has none; the store, the venues and the escrow are left as they
\* were
C16_DepositStateFailures ==
    [][ \A p \in PlaceCallers :
          ( /\ place[p].pc \in {"idle", "prepared"}
            /\ place'[p] # place[p]
            /\ place'[p].result # "validation"
            /\ \A ce \in contractEvents :
                  ce.contract_order_id = place'[p].coid
                      => (ce.processed \/ ce.refunded) )
          => /\ place'[p].pc = "done"
             /\ place'[p].result \in {"not_found", "already_placed", "already_refunded"}
             /\ place'[p].result = "already_placed" =>
                    \E ce \in contractEvents :
                        ce.contract_order_id = place'[p].coid /\ ce.processed
             /\ place'[p].result = "already_refunded" =>
                    \E ce \in contractEvents :
                        ce.contract_order_id = place'[p].coid /\ ce.refunded
             /\ place'[p].result = "not_found" =>
                    \A ce \in contractEvents : ce.contract_order_id # place'[p].coid
             /\ store' = store
             /\ chain' = chain ]_vars

\* a call has failed with already_refunded, another may fail with
\* already_placed: the deposit was refunded, or placed
C16_Witness ==
    \E p \in PlaceCallers :
        /\ place[p].pc = "done"
        /\ place[p].result \in {"already_placed", "already_refunded"}
        /\ \E ce \in contractEvents :
              ce.contract_order_id = place[p].coid /\ (ce.processed \/ ce.refunded)


\* C17: a place call that carries a prepared message whose expires_at
\* (prepare time plus 300 seconds) had passed when the call was made is
\* rejected: it goes no further than its first step and places no Order
C17_ExpiredPreparedMessageRejected ==
    \A p \in PlaceCallers :
        place[p].msgExpired =>
            /\ place[p].pc = "done"
            /\ place[p].result # "placed"


\* C18: a result-sync pass changes the status of placed Orders only (to
\* settlable when bet_option equals the result, else to settled): an Order
\* that is in any other status when the pass writes is left as it is
C18_SweepTouchesPlacedOnly ==
    [][ (sweep.pc = "update" /\ sweep' # sweep) =>
            \A o \in orders : \A n \in orders' :
                (n.order_uuid = o.order_uuid /\ n.status # o.status)
                    => /\ o.status = "placed"
                       /\ n.status \in {"settlable", "settled"} ]_vars


(* ------------------------------ GetWithdrawInfo -------------------------- *)

\* const feeRateBps: 1% in basis points
feeRateBps == 100

\* the answer of GetWithdrawInfo for the Order row o (amounts in cents, the
\* fee rounded down to a cent)
GetWithdrawInfo(o) ==
    IF o.status # "settled" THEN [err |-> "not_settled", Amount |-> 0, Fee |-> 0]
    ELSE LET sum == o.bet_amount + o.actual_profit
             payout == IF sum < 0 THEN 0 ELSE sum
             profit == IF o.actual_profit < 0 THEN 0 ELSE o.actual_profit
         IN IF o.platform_id = kalshiPlatformID
                THEN [err |-> "", Amount |-> payout,
                      Fee |-> (profit * feeRateBps) \div 10000]
            ELSE [err |-> "", Amount |-> payout, Fee |-> 0]

\* C19: an Order that a result-sync pass moves from placed to settled (a
\* loss: the event's result differs from its bet_option) has actual_profit 0,
\* and withdraw-info for it answers an amount of 0
C19_LossPaysNothing ==
    [][ (sweep.pc = "update" /\ sweep' # sweep) =>
            \A o \in orders : \A n \in orders' :
                (n.order_uuid = o.order_uuid /\ o.status = "placed"
                    /\ n.status = "settled")
                    => /\ n.actual_profit = 0
                       /\ GetWithdrawInfo(n).err = ""
                       /\ GetWithdrawInfo(n).Amount = 0 ]_vars


\* C20: request_withdraw is accepted only on an Order whose status is
\* settled: when it writes, the Order is settled and becomes withdrawn on the
\* fiat venue, withdraw_requested on a chain-settled venue; a request that
\* fails leaves the Orders as they were
C20_WithdrawOnlyFromSettled ==
    [][ \A x \in WithdrawCallers :
          /\ (withdraw[x].pc = "update" /\ withdraw'[x].result = "ok") =>
                \A o \in GetByUUID(withdraw[x].orderUUID) :
                    /\ o.status = "settled"
                    /\ \A n \in orders' :
                          n.order_uuid = o.order_uuid =>
                              n.status = IF o.platform_id = kalshiPlatformID
                                            THEN "withdrawn"
                                            ELSE "withdraw_requested"
          /\ (withdraw[x].pc = "idle" /\ withdraw'[x].pc = "done") =>
                orders' = orders ]_vars

(* ------------------------------- event_odds ------------------------------ *)

MarketNames == {"m"}

\* what a venue answers for one event: Polymarket markets with their
\* outcomes and prices, Kalshi contracts with their prices
PolymarketOutcomes == [Name : {"Yes"}, Price : Prices]

PolymarketMarkets == [Name : MarketNames, Outcomes : {<<o>> : o \in PolymarketOutcomes}]

PolymarketPayloads ==
    {<<m>> : m \in PolymarketMarkets}
        \cup {<<m1, m2>> : m1 \in PolymarketMarkets, m2 \in PolymarketMarkets}

KalshiPayloads == {<<c>> : c \in [Name : {"Yes"}, Price : Prices]}

\* fmt.Sprintf of the parts joined by "_"; no name of the universes holds a
\* "_", so a key is the sequence of its parts
polymarketUniqueKey(platformID, eventID, marketName, outcomeName) ==
    <<platformID, eventID, marketName, outcomeName>>

kalshiUniqueKey(platformID, eventID, contractName) ==
    <<platformID, eventID, contractName>>

defaultUniqueKey(platformID, eventID) == <<platformID, eventID>>

upsertUniqueKey(platformID, platformEventID, optionName) ==
    <<platformID, platformEventID, optionName>>

\* a model.EventOdds built at nowSec
NewEventOdds(eventID, unique, platformID, optionName, price, nowSec) ==
    [EventID |-> eventID, UniqueEventPlatform |-> unique,
     PlatformID |-> platformID, OptionName |-> optionName, OptionType |-> "",
     Price |-> price, CreatedAt |-> nowSec, UpdatedAt |-> nowSec]

RECURSIVE FlattenSeqs(_)
FlattenSeqs(ss) == IF ss = <<>> THEN <<>> ELSE Head(ss) \o FlattenSeqs(Tail(ss))

\* Polymarket Adapter.buildEventOdds: one row per outcome of every market,
\* or the default row when there is none
polymarketBuildEventOdds(eventID, platformID, peID, markets, nowSec) ==
    LET perMarket == [i \in 1..Len(markets) |->
            [j \in 1..Len(markets[i].Outcomes) |->
                NewEventOdds(eventID,
                    polymarketUniqueKey(platformID, peID, markets[i].Name,
                                        markets[i].Outcomes[j].Name),
                    platformID, markets[i].Outcomes[j].Name,
                    markets[i].Outcomes[j].Price, nowSec)]]
        oddsList == FlattenSeqs(perMarket)
    IN IF oddsList = <<>>
         THEN <<NewEventOdds(eventID, defaultUniqueKey(platformID, peID),
                             platformID, "default", 0, nowSec)>>
         ELSE oddsList

\* Kalshi Adapter.buildEventOdds: one row per contract, or the default row
kalshiBuildEventOdds(eventID, platformID, keID, contracts, nowSec) ==
    LET oddsList == [i \in 1..Len(contracts) |->
            NewEventOdds(eventID,
                kalshiUniqueKey(platformID, keID, contracts[i].Name),
                platformID, contracts[i].Name, contracts[i].Price, nowSec)]
    IN IF oddsList = <<>>
         THEN <<NewEventOdds(eventID, defaultUniqueKey(platformID, keID),
                             platformID, "default", 0, nowSec)>>
         ELSE oddsList

\* polymarketEventToLiveOdds: the live rows of the payload
polymarketEventToLiveOdds(platformID, markets) ==
    FlattenSeqs([i \in 1..Len(markets) |->
        [j \in 1..Len(markets[i].Outcomes) |->
            [PlatformID |-> platformID,
             OptionName |-> Trim(markets[i].Outcomes[j].Name),
             Price |-> markets[i].Outcomes[j].Price]]])

\* SyncService.dedupEventOdds: one row per unique_event_platform, the one
\* with the latest UpdatedAt; the adapters stamp each row with time.Now() as
\* they build it, so of two rows with one key the later built is kept
dedupEventOdds(odds) ==
    FlattenSeqs([i \in 1..Len(odds) |->
                    IF \A j \in (i + 1)..Len(odds) :
                          odds[j].UniqueEventPlatform # odds[i].UniqueEventPlatform
                      THEN <<odds[i]>> ELSE <<>>])

\* whether no two rows of a batch have the same unique_event_platform
KeysDistinct(batch) ==
    \A i, j \in 1..Len(batch) :
        batch[i].UniqueEventPlatform = batch[j].UniqueEventPlatform => i = j

\* an INSERT of the batch with no ON CONFLICT clause on a table without the
\* unique index
OnConflictUpdate_PlainInsert(table, batch, withOptionType) ==
    table \cup {batch[i] : i \in 1..Len(batch)}

\* INSERT ... ON CONFLICT (unique_event_platform) DO UPDATE SET price,
\* option_name, updated_at (and option_type when withOptionType) =
\* EXCLUDED.*; the statement fails as a whole, writing nothing, when the
\* batch holds a key twice
OnConflictUpdate(table, batch, withOptionType) ==
    IF ~KeysDistinct(batch) THEN table
    ELSE LET incoming(k) == CHOOSE i \in 1..Len(batch) :
                                batch[i].UniqueEventPlatform = k
             hit(e) == \E i \in 1..Len(batch) :
                           batch[i].UniqueEventPlatform = e.UniqueEventPlatform
             updated(e) ==
                 LET r == batch[incoming(e.UniqueEventPlatform)]
                 IN [e EXCEPT !.Price = r.Price, !.OptionName = r.OptionName,
                              !.UpdatedAt = r.UpdatedAt,
                              !.OptionType = IF withOptionType THEN r.OptionType
                                             ELSE @]
         IN {IF hit(e) THEN updated(e) ELSE e : e \in table}
            \cup {batch[i] : i \in {j \in 1..Len(batch) :
                    \A e \in table :
                        e.UniqueEventPlatform # batch[j].UniqueEventPlatform}}

\* EventRepository.UpsertOddsForEvents on rows [EventID, PlatformID,
\* PlatformEventID, OptionName, Price]
UpsertOddsForEvents(table, rows, nowSec) ==
    IF Len(rows) = 0 THEN table
    ELSE OnConflictUpdate(table,
            [i \in 1..Len(rows) |->
                NewEventOdds(rows[i].EventID,
                    upsertUniqueKey(rows[i].PlatformID, rows[i].PlatformEventID,
                                    rows[i].OptionName),
                    rows[i].PlatformID, rows[i].OptionName, rows[i].Price, nowSec)],
            FALSE)

\* step 5 of EventRepository.SaveEvents, on the odds of the events saved
SaveEventsOdds(table, odds) ==
    IF Len(odds) = 0 THEN table ELSE OnConflictUpdate(table, odds, TRUE)

\* SyncService.SyncPlatform for one venue whose catalog holds event e with
\* the given payload: convert, dedup, save (one transaction)
SyncPlatform(events, polymarketPayloads, kalshiPayloads) ==
    /\ \E e \in events :
        \/ /\ e.PlatformID # kalshiPlatformID
           /\ \E markets \in polymarketPayloads :
                eventOdds' = SaveEventsOdds(eventOdds,
                    dedupEventOdds(polymarketBuildEventOdds(
                        e.ID, e.PlatformID, e.PlatformEventID, markets, now)))
        \/ /\ e.PlatformID = kalshiPlatformID
           /\ \E contracts \in kalshiPayloads :
                eventOdds' = SaveEventsOdds(eventOdds,
                    dedupEventOdds(kalshiBuildEventOdds(
                        e.ID, e.PlatformID, e.PlatformEventID, contracts, now)))
    /\ UNCHANGED <<aux, catalog, store, chain, delivered, now, place, unfreeze, withdraw,
                   listener, sweep>>

\* the rows OddsSyncService.Run and the write-back of place hand to
\* UpsertOddsForEvents for event e
OddsRowsOf(e, liveRows) ==
    [i \in 1..Len(liveRows) |->
        [EventID |-> e.ID, PlatformID |-> e.PlatformID,
         PlatformEventID |-> e.PlatformEventID,
         OptionName |-> liveRows[i].OptionName, Price |-> liveRows[i].Price]]

\* OddsSyncService.Run: the live odds of the open events whose venue has a
\* live fetcher (Polymarket) are fetched and upserted in one statement; an
\* event whose fetch fails is skipped
OddsSyncRun(events, polymarketPayloads) ==
    /\ \E e \in {x \in events : x.PlatformID # kalshiPlatformID} :
        \E markets \in polymarketPayloads :
            eventOdds' = UpsertOddsForEvents(eventOdds,
                OddsRowsOf(e, polymarketEventToLiveOdds(e.PlatformID, markets)), now)
    /\ UNCHANGED <<aux, catalog, store, chain, delivered, now, place, unfreeze, withdraw,
                   listener, sweep>>


\* step 9 of place: the live rows fetched in steps 2-4 are written back to
\* event_odds; a store error is only logged
PlaceWriteBackOdds(p) ==
    /\ place[p].pc = "writeback"
    /\ \E dbOk \in BOOLEAN :
        eventOdds' = IF dbOk THEN UpsertOddsForEvents(eventOdds, place[p].fetched, now)
                     ELSE eventOdds
    /\ place' = [place EXCEPT ![p].pc = "done", ![p].result = "placed"]
    /\ UNCHANGED <<aux, catalog, store, chain, delivered, now, unfreeze, withdraw, listener, sweep>>

\* the odds a place call sees when the live fetcher of Polymarket answers
LiveOddsInputs ==
    {[i \in 1..Len(polymarketEventToLiveOdds(1, markets)) |->
        [PlatformID |-> polymarketEventToLiveOdds(1, markets)[i].PlatformID,
         OptionName |-> polymarketEventToLiveOdds(1, markets)[i].OptionName,
         OptionType |-> "",
         Price |-> polymarketEventToLiveOdds(1, markets)[i].Price]]
        : markets \in PolymarketPayloads}

\* the three writers of event_odds: the sync pipeline, the live-odds service
\* and the write-back of place
NextOdds ==
    \/ SyncPlatform(Events, PolymarketPayloads, KalshiPayloads)
    \/ OddsSyncRun(Events, PolymarketPayloads)
    \/ OnDepositSuccess(LogsOf({"t1"}, {"b1"}))
    \/ PlaceBegin("p1", UnsignedRequests({"b1"}))
    \/ PlaceFetchOdds("p1", LiveMarkets({"1_a"}, {"YES"}, LiveOddsInputs))
    \/ PlaceVenueOk("p1")
    \/ PlaceVenueFail("p1")
    \/ PlaceCreateOrder("p1")
    \/ PlaceMarkProcessed("p1")
    \/ PlaceWriteBackOdds("p1")
    \/ PlaceReturn("p1")
    \/ Tick

SpecOdds == Init /\ [][NextOdds]_vars


C22_OneRowPerVenueOption ==
    \A r1, r2 \in eventOdds :
        (r1.EventID = r2.EventID /\ r1.PlatformID = r2.PlatformID
            /\ r1.OptionName = r2.OptionName) => r1 = r2

(* ------------------------- canonical aggregation ------------------------- *)

\* a title is a sequence of characters: a lower-case and an upper-case
\* letter, a punctuation mark and a blank
TitleChars == {"a", "A", "-", " "}

MaxTitleLen == 2

\* every title of at most MaxTitleLen characters, and longer ones with a
\* separator between two words
Titles ==
    UNION {[1..n -> TitleChars] : n \in 1..MaxTitleLen}
        \cup {<<"a", "-", "a">>, <<"a", " ", "a">>, <<"A", " ", " ", "a">>,
              <<"a", "-", " ", "A">>, <<" ", "a", " ", "a", "-">>}

\* seconds; 1799 is the last second of the first half hour
StartTimes == {1799, 1800, 3599}

canonicalSlotSec == 1800

IsSpace(c) == c = " "

\* [a-z0-9]
IsLowerAlnum(c) == c = "a"

RECURSIVE TrimLeft(_)
TrimLeft(t) ==
    IF t # <<>> /\ IsSpace(Head(t)) THEN TrimLeft(Tail(t)) ELSE t

RECURSIVE TrimRight(_)
TrimRight(t) ==
    IF t # <<>> /\ IsSpace(t[Len(t)]) THEN TrimRight(SubSeq(t, 1, Len(t) - 1)) ELSE t

\* strings.TrimSpace
TrimSpace(t) == TrimRight(TrimLeft(t))

\* strings.ToLower
ToLower(t) == [i \in 1..Len(t) |-> IF t[i] = "A" THEN "a" ELSE t[i]]

\* regexp ReplaceAllString(t, " ") for a pattern class+: every maximal run
\* of characters of the class becomes one blank
ReplaceRuns(t, class) ==
    FlattenSeqs([i \in 1..Len(t) |->
        IF t[i] \notin class THEN <<t[i]>>
        ELSE IF i > 1 /\ t[i - 1] \in class THEN <<>>
        ELSE <<" ">>])

\* [^a-z0-9\s]
NonAlnumNonSpace == {c \in TitleChars : ~IsLowerAlnum(c) /\ ~IsSpace(c)}

\* \s
Whitespace == {c \in TitleChars : IsSpace(c)}

\* normalizeTitle without the lower-casing
normalizeTitle_NoLower(title) ==
    TrimSpace(ReplaceRuns(ReplaceRuns(TrimSpace(title), NonAlnumNonSpace), Whitespace))

normalizeTitle(title) ==
    TrimSpace(ReplaceRuns(ReplaceRuns(ToLower(TrimSpace(title)), NonAlnumNonSpace), Whitespace))

\* startTime.Truncate(30*time.Minute).Unix()
canonicalSlot(startTime) == startTime - (startTime % canonicalSlotSec)

\* the key is the digest of "<normalized>|<slot>"; a normalized title holds
\* no "|", so the digest's input is the pair, and the pair stands for it
buildCanonicalKey(title, startTime) ==
    <<normalizeTitle(title), canonicalSlot(startTime)>>

\* ListEventsForAggregation: the rows of events with their titles
ListEventsForAggregation ==
    {[ID |-> e.ID, PlatformID |-> e.PlatformID,
      Title |-> eventRows[e.ID].Title, StartTime |-> eventRows[e.ID].StartTime]
        : e \in Events}

\* AggregationService.Run: the listed events are grouped by canonical key;
\* each group is upserted into canonical_events (conflict on canonical_key:
\* title and match_time take the group's first event, the list being ordered
\* by start_time) and every event of the group is linked to it (conflict on
\* canonical event and venue: event_id is updated). A failed upsert skips the
\* group, a failed link is logged. The canonical event's id stands in
\* one-to-one relation with its key, which is used for it here; Events has
\* one row per venue.
AggregationRun ==
    LET events == ListEventsForAggregation
        keyOf(e) == buildCanonicalKey(e.Title, e.StartTime)
        keys == {keyOf(e) : e \in events}
        group(k) == {e \in events : keyOf(e) = k}
    IN  \E failedKeys \in SUBSET keys, failedLinks \in SUBSET events :
        \E first \in [keys -> events] :
            /\ \A k \in keys :
                  /\ first[k] \in group(k)
                  /\ \A e \in group(k) : first[k].StartTime <= e.StartTime
            /\ LET done == keys \ failedKeys
                   rows == {[CanonicalKey |-> k, Title |-> first[k].Title,
                             MatchTime |-> first[k].StartTime] : k \in done}
                   links == {[CanonicalEventID |-> keyOf(e), EventID |-> e.ID,
                              PlatformID |-> e.PlatformID]
                                : e \in {x \in events \ failedLinks : keyOf(x) \in done}}
               IN  /\ canonicalEvents' =
                        {c \in canonicalEvents : c.CanonicalKey \notin done} \cup rows
                   /\ eventPlatformLinks' =
                        {l \in eventPlatformLinks :
                            \A n \in links :
                                ~(n.CanonicalEventID = l.CanonicalEventID
                                    /\ n.PlatformID = l.PlatformID)} \cup links
            /\ UNCHANGED <<aux, eventRows, eventOdds, store, chain, delivered, now,
                           place, unfreeze, withdraw, listener, sweep>>

\* the events table holds any two titles and start times
InitCanonical ==
    /\ InitTables
    /\ eventRows \in [{e.ID : e \in Events} -> [Title : Titles, StartTime : StartTimes]]

NextCanonical == AggregationRun

SpecCanonical == InitCanonical /\ [][NextCanonical]_vars

\* C23 (as amended): two events whose titles hold the same words once case
\* is folded and every run of punctuation and blanks is read as one
\* separator, and whose start times fall in the same 30-minute slot, get the
\* same canonical key, at most one canonical event carries that key, and the
\* links of both events lead to that canonical event.
C23_SameWordsSameCanonicalEvent ==
    LET RECURSIVE SplitWords(_, _)
        SplitWords(t, cur) ==
            LET flush == IF cur = <<>> THEN <<>> ELSE <<cur>>
            IN  IF t = <<>> THEN flush
                ELSE IF Head(t) \in {"a", "A"}
                     THEN SplitWords(Tail(t), Append(cur, "a"))
                     ELSE flush \o SplitWords(Tail(t), <<>>)
    IN  \A e1, e2 \in ListEventsForAggregation :
            (/\ SplitWords(e1.Title, <<>>) = SplitWords(e2.Title, <<>>)
             /\ e1.StartTime \div canonicalSlotSec = e2.StartTime \div canonicalSlotSec)
            => /\ buildCanonicalKey(e1.Title, e1.StartTime)
                    = buildCanonicalKey(e2.Title, e2.StartTime)
               /\ Cardinality({c \in canonicalEvents :
                     c.CanonicalKey = buildCanonicalKey(e1.Title, e1.StartTime)}) <= 1
               /\ \A l1, l2 \in eventPlatformLinks :
                     (l1.EventID = e1.ID /\ l2.EventID = e2.ID)
                        => l1.CanonicalEventID = l2.CanonicalEventID

\* C23 witness: a run linked two events to one canonical event although
\* their titles differ in case, in the separator and in repeated blanks, and
\* their start times differ within one slot
C23_Witness ==
    /\ eventRows[1].Title = <<"A", " ", " ", "a">>
    /\ eventRows[2].Title = <<"a", "-", "a">>
    /\ eventRows[1].StartTime = 1800 /\ eventRows[2].StartTime = 3599
    /\ Cardinality(canonicalEvents) = 1
    /\ \E c \in canonicalEvents :
          \A id \in {1, 2} :
              \E l \in eventPlatformLinks :
                  l.EventID = id /\ l.CanonicalEventID = c.CanonicalKey

\* C23 (as stated): two events whose titles are equal once case is folded,
\* punctuation is dropped and repeated blanks are collapsed, and whose start
\* times fall in the same 30-minute slot, get the same canonical key.
C23_PunctuationDropped ==
    LET Dropped(t) ==
            TrimSpace(ReplaceRuns(
                FlattenSeqs([i \in 1..Len(t) |->
                    IF t[i] = "-" THEN <<>> ELSE <<IF t[i] = "A" THEN "a" ELSE t[i]>>]),
                Whitespace))
    IN  \A e1, e2 \in ListEventsForAggregation :
            (/\ Dropped(e1.Title) = Dropped(e2.Title)
             /\ e1.StartTime \div canonicalSlotSec = e2.StartTime \div canonicalSlotSec)
            => buildCanonicalKey(e1.Title, e1.StartTime)
                    = buildCanonicalKey(e2.Title, e2.StartTime)



\* C24: an Order is created, and a deposit is marked processed, only by a
\* place call that carried a signature accepted as the deposit wallet's
\* personal_sign of its message: no step of a place call without such a
\* signature writes an Order or a Contract Event
C24_PlacedOnlyBySignedCall ==
    [][ \A p \in PlaceCallers :
            (/\ place[p].pc \in {"create", "mark"}
             /\ place'[p] # place[p]
             /\ (orders' # orders \/ contractEvents' # contractEvents))
                => (place[p].signed /\ place[p].sigValid) ]_vars

\* C25: the Event an Order's event_id refers to is an Event of the venue in
\* the Order's platform_id
C25_OrderEventOfChosenVenue ==
    \A o \in orders :
        \E e \in Events : e.ID = o.event_id /\ e.PlatformID = o.platform_id

\* C26: for every contract_order_id the venues have accepted at most one
\* order, whatever place calls ran on it
C26_OneVenueOrderPerDeposit ==
    \A c \in BetIds : venueOrders[c] <= 1

\* C27: for no contract_order_id has a venue accepted an order while a
\* releaseFunds transaction for it succeeded on chain
C27_NeverPlacedAndReleased ==
    \A c \in BetIds : ~(venueOrders[c] > 0 /\ released[c] + lateReleased[c] > 0)

\* C28: once a venue has accepted an order for a contract_order_id and the
\* place call that sent it is over, every place and request_unfreeze call
\* that begins on that contract_order_id ends at its first check: it reaches
\* neither the venue nor the chain
C28_NoCallAfterVenueAccepted ==
    [][ /\ \A p \in PlaceCallers :
            (/\ place[p].pc = "idle" /\ place'[p].pc # "idle"
             /\ venueOrders[place'[p].coid] > 0
             /\ \A q \in PlaceCallers :
                   place[q].coid = place'[p].coid => place[q].pc = "done")
                => place'[p].pc = "done"
        /\ \A u \in UnfreezeCallers :
            (/\ unfreeze[u].pc = "idle" /\ unfreeze'[u].pc # "idle"
             /\ venueOrders[unfreeze'[u].coid] > 0
             /\ \A q \in PlaceCallers :
                   place[q].coid = unfreeze'[u].coid => place[q].pc = "done")
                => unfreeze'[u].pc = "done" ]_vars

\* C29: a place call that begins after a releaseFunds transaction for its
\* contract_order_id succeeded on chain, the request_unfreeze that sent it
\* being over, does not succeed: no venue takes its order and it does not
\* return the placed order
C29_NoPlaceAfterRelease ==
    \A p \in PlaceCallers :
        place[p].afterRelease =>
            /\ place[p].pc \notin {"create", "mark", "writeback"}
            /\ place[p].result # "placed"

\* C30: a place call whose signature was accepted and that went on to the
\* venue executes what the signed message names: the message's
\* contract_order_id, event and bet option are those of the request, and so
\* is its locked odds when the request carries one
C30_SignatureCoversRequest ==
    \A p \in PlaceCallers :
        (/\ place[p].signed /\ place[p].sigValid
         /\ place[p].pc \in {"venue", "create", "mark", "writeback", "done"}
         /\ place[p].best.found)
            => /\ place[p].signedFor.coid = place[p].coid
               /\ place[p].signedFor.eventUUID = place[p].eventUUID
               /\ place[p].signedFor.betOption = place[p].betOption
               /\ place[p].lockedOdds > 0 =>
                    place[p].signedFor.lockedOdds = place[p].lockedOdds

(* ---------------------------- chain subscription ------------------------- *)

\* SaveDepositSuccess ends with a store error that is no unique violation
\* (connection lost, timeout): nothing is written, OnDepositSuccess returns
\* the error and Run logs "handleLog failed"
OnDepositSuccessFailed(logs) ==
    \E log \in logs :
        /\ listener.pc = "idle"
        /\ delivered' = delivered \cup {log}
        /\ listener' = [IdleListener EXCEPT
                            !.orderUUID = log.betId, !.txHash = log.TxHash,
                            !.redelivered = log \in delivered,
                            !.result = "store_error"]
        /\ UNCHANGED <<aux, catalog, eventOdds, store, chain, now, place, unfreeze,
                       withdraw, sweep>>

\* the escrow emits a FundsLocked log: the node sends it to the open
\* subscription; the query has no FromBlock, so a log emitted while no
\* subscription is open is sent to none
ChainEmit(logs) ==
    /\ \E log \in logs \ (feed.pushed \cup feed.missed) :
          feed' = IF feed.subscription = "open"
                    THEN [feed EXCEPT !.pushed = @ \cup {log}]
                    ELSE [feed EXCEPT !.missed = @ \cup {log}]
    /\ UNCHANGED <<core, pick, tickerCache, stream, saveTx, receiptWait>>

\* the loop of ChainSubscriber.Run takes the next log from the channel and
\* handles it, whatever handleLog returns
HandleFundsLocked ==
    /\ feed.subscription = "open"
    /\ \E log \in feed.pushed \ delivered :
          \/ OnDepositSuccess({log})
          \/ OnDepositSuccessFailed({log})

\* an error arrives on sub.Err(): Run logs it and returns it, the deferred
\* Unsubscribe closes the subscription, Start returns and the goroutine of
\* main logs "ContractListener exited" and ends
SubscriptionError ==
    /\ feed.subscription = "open"
    /\ listener.pc = "idle"
    /\ feed' = [feed EXCEPT !.subscription = "exited"]
    /\ UNCHANGED <<core, pick, tickerCache, stream, saveTx, receiptWait>>

ListenLogs == LogsOf({"t1", "t2"}, BetIds)

NextListen ==
    \/ ChainEmit(ListenLogs)
    \/ HandleFundsLocked
    \/ SubscriptionError

\* the loop handles every log that is in its channel; when the chain emits
\* and when the connection breaks is up to them
SpecListen ==
    /\ Init
    /\ [][NextListen]_vars
    /\ WF_vars(HandleFundsLocked)

\* C31: a FundsLocked log that was handed to the listener eventually has its
\* DepositSuccess Contract Event, also when handling it failed once
C31_DeliveredLogIsPersisted ==
    \A log \in ListenLogs :
        (log \in delivered) ~> (\E ce \in contractEvents : ce.tx_hash = log.TxHash)

\* C32: a FundsLocked log emitted after the subscription ended with an error
\* is eventually ingested: the listener is running again and the log has
\* its Contract Event
C32_LogsAfterErrorIngested ==
    \A log \in ListenLogs :
        (log \in feed.missed) ~> (\E ce \in contractEvents : ce.tx_hash = log.TxHash)



\* C33: a result-sync pass moves a placed Order to settled (a loss) only
\* when the result it fetched for the event is not empty and differs from
\* the Order's bet option
C33_LossNeedsKnownResult ==
    [][ (sweep.pc = "update" /\ sweep' # sweep) =>
            \A o \in orders : \A n \in orders' :
                (n.order_uuid = o.order_uuid /\ o.status = "placed"
                    /\ n.status = "settled")
                    => (sweep.result # "" /\ sweep.result # o.bet_option) ]_vars

(* -------------------- result sync that keeps being run ------------------- *)

\* the winners a venue publishes for an ended event
PublishedResults == {"Yes", "NO"}

\* result sync on one ended event
SweepEvent(e) == SweepListOrders({e}, PublishedResults)

NextSweep ==
    \/ OnDepositSuccess(LogsOf({"t1"}, {"b1"}) \cup LogsOf({"t2"}, {"b2"}))
    \/ PlaceBegin("p1", UnsignedRequests(BetIds))
    \/ PlaceProgress("p1", Markets(EventUUIDs, {"YES"}, SingleVenueOdds))
    \/ \E e \in Events : SweepEvent(e)
    \/ SweepUpdateOrder

\* result sync keeps being run on every ended event whose venue has
\* published a result, and every handler that has begun runs to its end
SpecSweep ==
    /\ Init
    /\ [][NextSweep]_vars
    /\ WF_vars(PlaceProgress("p1", Markets(EventUUIDs, {"YES"}, SingleVenueOdds)))
    /\ \A e \in Events : WF_vars(SweepEvent(e))
    /\ WF_vars(SweepUpdateOrder)

\* C34: every placed Order eventually leaves status placed, on every venue,
\* when result sync keeps being run and the venue has published the result
C34_PlacedOrderLeavesPlaced ==
    \A b \in BetIds :
        (\E o \in GetByUUID(b) : o.status = "placed")
            ~> (\E o \in GetByUUID(b) : o.status \in {"settlable", "settled"})



(* --------------------------- best-venue selection ------------------------ *)

\* odds rows with and without an option type
TypedOddsRows ==
    [PlatformID : PlatformIds, OptionName : VenueOptionNames,
     OptionType : {"", "win", "lose"}, Price : Prices]

MaxPickRows == 2

PickInputs == UNION {[1..n -> TypedOddsRows] : n \in 0..MaxPickRows}

\* the call of pickBestOdds, on any rows and any bet option
PickBestOdds(inputs, betOptions) ==
    /\ pick = NoPick
    /\ \E odds \in inputs, betOption \in betOptions :
          pick' = [odds |-> odds, betOption |-> betOption,
                   best |-> pickBestOdds(odds, betOption)]
    /\ UNCHANGED <<core, feed, tickerCache, stream, saveTx, receiptWait>>

NextPick == PickBestOdds(PickInputs, BetOptions \cup {""})

SpecPick == Init /\ [][NextPick]_vars

\* C35 (as amended): best-venue selection answers the highest price among
\* the rows that match the requested side, a row matching when its option
\* name equals the bet option once both are trimmed and upper-cased, or when
\* its type is win for YES or lose for NO; of several matching rows at that
\* price the first is chosen; and when no row matches, or the bet option is
\* blank, selection fails
C35_BestIsFirstHighestMatch ==
    LET odds == pick.odds
        side == ToUpper(Trim(pick.betOption))
        Matches(o) == \/ ToUpper(Trim(o.OptionName)) = side
                      \/ (side = "YES" /\ o.OptionType = "win")
                      \/ (side = "NO" /\ o.OptionType = "lose")
        matching == {i \in 1..Len(odds) : Matches(odds[i])}
        top == {i \in matching : \A j \in matching : odds[j].Price <= odds[i].Price}
    IN IF matching = {} \/ Trim(pick.betOption) = ""
         THEN ~pick.best.found
         ELSE \E i \in top :
                /\ \A j \in top : i <= j
                /\ pick.best.found
                /\ pick.best.price = odds[i].Price
                /\ pick.best.platformID = odds[i].PlatformID
                /\ pick.best.optionName = odds[i].OptionName

\* C35 witness: two matching rows of two venues share the highest price,
\* one by its name and one by its type, and the first was chosen
C35_Witness ==
    /\ Len(pick.odds) = 2
    /\ pick.betOption = " NO"
    /\ pick.odds[1].OptionType = "lose" /\ pick.odds[1].OptionName # "NO"
    /\ pick.odds[2].OptionName = "NO"
    /\ pick.odds[1].Price = pick.odds[2].Price
    /\ pick.odds[1].PlatformID # pick.odds[2].PlatformID
    /\ pick.best.found
    /\ pick.best.platformID = pick.odds[1].PlatformID

\* C35 (as stated): a row matches by exact option name or by the win/lose
\* type mapped from YES/NO, and when no row matches selection fails
C35_ExactNameMatch ==
    LET odds == pick.odds
        Matches(o) == \/ o.OptionName = pick.betOption
                      \/ (pick.betOption = "YES" /\ o.OptionType = "win")
                      \/ (pick.betOption = "NO" /\ o.OptionType = "lose")
        matching == {i \in 1..Len(odds) : Matches(odds[i])}
    IN matching = {} => ~pick.best.found

(* ------------------------ sports-series ticker cache --------------------- *)

\* the cache's time to live, in hours
sportsSeriesCacheTTL == 4

MaxCacheClock == 5

\* what GET /series can answer: a list of tickers, possibly empty
SeriesAnswers == {<<>>, <<"S1">>, <<"S1", "S2">>}

\* an hour passes
CacheTick ==
    /\ tickerCache.clock < MaxCacheClock
    /\ tickerCache' = [tickerCache EXCEPT !.clock = @ + 1]
    /\ UNCHANGED <<core, feed, pick, stream, saveTx, receiptWait>>

\* getSportsSeriesTickers up to the release of the read lock, with no
\* series ticker configured: a live cache is copied out and returned,
\* otherwise the caller goes on to fetch, holding no lock
GetSportsSeriesTickers(c) ==
    /\ tickerCache.pc[c] = "idle"
    /\ IF /\ Len(tickerCache.sportsTickers) > 0
          /\ tickerCache.clock - tickerCache.sportsTickersAt < sportsSeriesCacheTTL
       THEN tickerCache' = [tickerCache EXCEPT !.out[c] = "cached"]
       ELSE tickerCache' = [tickerCache EXCEPT !.pc[c] = "fetch", !.out[c] = "none"]
    /\ UNCHANGED <<core, feed, pick, stream, saveTx, receiptWait>>

\* fetchSportsSeriesTickers returns to the caller: an error is passed on,
\* an answer is stored under the write lock and returned
FetchSportsSeriesTickers(c, answers) ==
    /\ tickerCache.pc[c] = "fetch"
    /\ \/ tickerCache' = [tickerCache EXCEPT !.pc[c] = "idle", !.out[c] = "error"]
       \/ \E tickers \in answers :
             tickerCache' = [tickerCache EXCEPT
                                !.sportsTickers = tickers,
                                !.sportsTickersAt = tickerCache.clock,
                                !.pc[c] = "idle",
                                !.out[c] = "fetched"]
    /\ UNCHANGED <<core, feed, pick, stream, saveTx, receiptWait>>

NextTickers ==
    \/ CacheTick
    \/ \E c \in TickerCallers : GetSportsSeriesTickers(c)
    \/ \E c \in TickerCallers : FetchSportsSeriesTickers(c, SeriesAnswers)

SpecTickers == Init /\ [][NextTickers]_vars

\* C36: at most one refresh fetch of the sports-series tickers is in flight
\* at any time, however many callers ask while the cache is empty or stale
C36_OneRefreshInFlight ==
    Cardinality({c \in TickerCallers : tickerCache.pc[c] = "fetch"}) <= 1

(* ------------------------------ streaming sync --------------------------- *)

\* series (Kalshi series tickers, Polymarket tag/series pairs) of one run
MaxSeries == 3

\* venue-side event ids
StreamEventIds == {"e1", "e2"}

\* what the venue answers for one series: up to two events
SeriesEventLists ==
    {<<>>} \cup {<<a>> : a \in StreamEventIds}
           \cup {<<a, b>> : a \in StreamEventIds, b \in StreamEventIds}

\* capacity of the channel between producer and consumer
streamChannelCap == 1

\* the events of a series as raw events, each remembering its series
RawEventsOf(ids, series) == [i \in 1..Len(ids) |-> [ID |-> ids[i], series |-> series]]

RECURSIVE dedupLoop(_, _, _, _)
dedupLoop(apiEvs, i, seen, batch) ==
    IF i > Len(apiEvs) THEN [batch |-> batch, seen |-> seen]
    ELSE IF apiEvs[i].ID \in seen
         THEN dedupLoop(apiEvs, i + 1, seen, batch)
         ELSE dedupLoop(apiEvs, i + 1, seen \cup {apiEvs[i].ID},
                        Append(batch, apiEvs[i]))

\* the batch loop without the seen check
buildBatch_NoSeen(apiEvs, seen) ==
    [batch |-> apiEvs, seen |-> seen \cup {apiEvs[i].ID : i \in 1..Len(apiEvs)}]

\* the batch of a series: its events whose id was not seen before in the run
buildBatch(apiEvs, seen) == dedupLoop(apiEvs, 1, seen, <<>>)

\* the producer lists its series; a failure is returned before any fetch
StreamStart ==
    /\ stream.pc = "start"
    /\ \/ stream' = [stream EXCEPT !.pc = "fetch"]
       \/ stream' = [stream EXCEPT !.pc = "closed", !.err = "producer"]
    /\ UNCHANGED <<core, feed, pick, tickerCache, saveTx, receiptWait>>

\* one turn of the producer's loop up to the call of yield: the series is
\* fetched; a failed fetch and an empty batch go on to the next series
StreamFetch(answers) ==
    /\ stream.pc = "fetch"
    /\ stream.next <= MaxSeries
    /\ \/ stream' = [stream EXCEPT !.next = @ + 1, !.fetches = @ + 1]
       \/ \E ids \in answers :
             LET apiEvs == RawEventsOf(ids, stream.next)
                 b == buildBatch(apiEvs, stream.seen)
             IN stream' = [stream EXCEPT
                              !.seen = b.seen,
                              !.fetches = @ + 1,
                              !.fetched = @ \cup {apiEvs[i] : i \in 1..Len(apiEvs)},
                              !.batch = b.batch,
                              !.pc = IF b.batch # <<>> THEN "yield" ELSE "fetch",
                              !.next = IF b.batch # <<>> THEN @ ELSE @ + 1]
    /\ UNCHANGED <<core, feed, pick, tickerCache, saveTx, receiptWait>>

\* the producer has gone through every series and returns; the channel is closed
StreamReturn ==
    /\ stream.pc = "fetch"
    /\ stream.next > MaxSeries
    /\ stream' = [stream EXCEPT !.pc = "closed"]
    /\ UNCHANGED <<core, feed, pick, tickerCache, saveTx, receiptWait>>

\* what yield does with a batch: with a save error stored it returns that
\* error; otherwise it pushes the batch once the channel has room
yieldOutcome ==
    IF stream.saveErr THEN "error"
    ELSE IF Len(stream.channel) < streamChannelCap THEN "pushed"
    ELSE "blocked"

\* the producer calls yield(batch): an error is returned to the caller at
\* once, otherwise the batch is counted and the loop goes on
StreamYield ==
    /\ stream.pc = "yield"
    /\ IF yieldOutcome = "error"
       THEN stream' = [stream EXCEPT !.pc = "closed", !.err = "save", !.batch = <<>>]
       ELSE /\ yieldOutcome = "pushed"
            /\ stream' = [stream EXCEPT
                             !.channel = Append(@, stream.batch),
                             !.handed = Append(@, stream.batch),
                             !.total = @ + Len(stream.batch),
                             !.batch = <<>>,
                             !.next = @ + 1,
                             !.pc = "fetch"]
    /\ UNCHANGED <<core, feed, pick, tickerCache, saveTx, receiptWait>>

\* the consumer task takes the next batch off the channel
ConsumerReceive ==
    /\ stream.saving = <<>>
    /\ stream.channel # <<>>
    /\ stream' = [stream EXCEPT !.saving = Head(stream.channel),
                                !.channel = Tail(@)]
    /\ UNCHANGED <<core, feed, pick, tickerCache, saveTx, receiptWait>>

\* the consumer task persists the batch it holds; a failure is stored
ConsumerSave ==
    /\ stream.saving # <<>>
    /\ \/ stream' = [stream EXCEPT
                        !.saved = @ \cup {stream.saving[i].ID : i \in 1..Len(stream.saving)},
                        !.saving = <<>>]
       \/ stream' = [stream EXCEPT !.saveErr = TRUE, !.saving = <<>>]
    /\ UNCHANGED <<core, feed, pick, tickerCache, saveTx, receiptWait>>

\* the run joins the consumer after the channel has drained and reports
StreamJoin ==
    /\ stream.pc = "closed"
    /\ stream.channel = <<>>
    /\ stream.saving = <<>>
    /\ stream' = [stream EXCEPT
                     !.pc = "done",
                     !.result = IF stream.saveErr THEN "save_error"
                                ELSE IF stream.err # "" THEN "producer_error"
                                ELSE "ok"]
    /\ UNCHANGED <<core, feed, pick, tickerCache, saveTx, receiptWait>>

NextStream ==
    \/ StreamStart
    \/ StreamFetch(SeriesEventLists)
    \/ StreamReturn
    \/ StreamYield
    \/ ConsumerReceive
    \/ ConsumerSave
    \/ StreamJoin

SpecStream == Init /\ [][NextStream]_vars

\* C37: once the save of a batch has failed, no further batch is fetched
\* from the venue or handed to the consumer, and the run reports the save
\* error
C37_SaveFailureStopsProducer ==
    [][ /\ stream.saveErr =>
            /\ stream'.fetches = stream.fetches
            /\ stream'.handed = stream.handed
        /\ (stream'.pc = "done" /\ stream'.saveErr) => stream'.result = "save_error"
      ]_vars

\* the events handed to the consumer so far, as (batch, position) places
HandedPlaces ==
    UNION {{<<k, i>> : i \in 1..Len(stream.handed[k])} : k \in 1..Len(stream.handed)}

\* C39: within one streaming run every venue-side event id is handed to the
\* consumer at most once, and the event handed is the first occurrence
\* fetched: no series fetched earlier carried the same id
C39_EachEventIdHandedOnce ==
    /\ \A p \in HandedPlaces : \A q \in HandedPlaces :
          stream.handed[p[1]][p[2]].ID = stream.handed[q[1]][q[2]].ID => p = q
    /\ \A p \in HandedPlaces : \A f \in stream.fetched :
          f.ID = stream.handed[p[1]][p[2]].ID
              => stream.handed[p[1]][p[2]].series <= f.series

\* C39 witness: e1 came with series 1 and again with series 2; the batch of
\* series 1 was handed with e1, the batch of series 2 without it
C39_Witness ==
    /\ Len(stream.handed) = 2
    /\ stream.handed[1] = <<[ID |-> "e1", series |-> 1]>>
    /\ stream.handed[2] = <<[ID |-> "e2", series |-> 2]>>
    /\ [ID |-> "e1", series |-> 2] \in stream.fetched

(* -------------------------------- SaveEvents ----------------------------- *)

MaxSaves == 2

SavePlatformEventIds == {"a", "b"}

\* a batch's events: at most one per venue-side id, with the title fetched
SaveEventBatches ==
    UNION {[ids -> {"t1", "t2"}] : ids \in SUBSET SavePlatformEventIds}

\* a batch's odds rows: at most one per unique_event_platform, with a price
SaveOddsBatches ==
    UNION {[ids -> Prices] : ids \in SUBSET SavePlatformEventIds}

\* INSERT ... ON CONFLICT (platform_id, platform_event_id) DO UPDATE, seen
\* from inside the transaction: a known id keeps its row id and takes the
\* new title, a new one gets the next row id
UpsertEventRows(rows, batch) ==
    LET known == {r.PlatformEventID : r \in rows}
        fresh == (DOMAIN batch) \ known
        rank(pe) == Cardinality({q \in fresh : q = "a" /\ pe = "b"}) + 1
    IN {IF r.PlatformEventID \in DOMAIN batch
          THEN [r EXCEPT !.Title = batch[r.PlatformEventID]] ELSE r : r \in rows}
       \cup {[ID |-> Cardinality(rows) + rank(pe), PlatformEventID |-> pe,
              Title |-> batch[pe]] : pe \in fresh}

\* the odds rows get the row id of their event, then INSERT ... ON CONFLICT
\* (unique_event_platform) DO UPDATE price
UpsertOddsRows(oddsRows, eventRowsInTx, batchEvents, batch) ==
    LET idOf(pe) == IF pe \in DOMAIN batchEvents
                    THEN (CHOOSE r \in eventRowsInTx : r.PlatformEventID = pe).ID
                    ELSE 0
        known == {o.UniqueEventPlatform : o \in oddsRows}
    IN {IF o.UniqueEventPlatform \in DOMAIN batch
          THEN [o EXCEPT !.Price = batch[o.UniqueEventPlatform]] ELSE o : o \in oddsRows}
       \cup {[UniqueEventPlatform |-> pe, EventID |-> idOf(pe), Price |-> batch[pe]]
                : pe \in (DOMAIN batch) \ known}

\* a failed step that leaves the transaction's writes in the tables
SaveRollback_KeepsWritten(failedAt) ==
    [saveTx EXCEPT !.pc = "idle", !.result = "error", !.failedAt = failedAt,
                   !.stored = saveTx.tx, !.dropped = saveTx.tx, !.tx = NoTables]

\* tx.Rollback() and the error return: the transaction's writes are dropped
SaveRollback(failedAt) ==
    [saveTx EXCEPT !.pc = "idle", !.result = "error", !.failedAt = failedAt,
                   !.dropped = saveTx.tx, !.tx = NoTables]

\* SaveEvents is called with a batch and begins its transaction
SaveBegin(eventBatches, oddsBatches) ==
    /\ saveTx.pc = "idle"
    /\ saveTx.calls < MaxSaves
    /\ \E events \in eventBatches, odds \in oddsBatches :
          LET call == [saveTx EXCEPT !.calls = @ + 1, !.events = events,
                                     !.odds = odds, !.before = saveTx.stored,
                                     !.dropped = NoTables, !.failedAt = "",
                                     !.result = ""]
          IN \/ saveTx' = [call EXCEPT !.pc = "events", !.tx = saveTx.stored]
             \/ saveTx' = [call EXCEPT !.result = "error", !.failedAt = "begin"]
    /\ UNCHANGED <<core, feed, pick, tickerCache, stream, receiptWait>>

\* step 2: the events are upserted
SaveUpsertEvents ==
    /\ saveTx.pc = "events"
    /\ \/ saveTx' = [saveTx EXCEPT
                        !.tx.events = UpsertEventRows(@, saveTx.events),
                        !.pc = "reread"]
       \/ saveTx' = SaveRollback("events")
    /\ UNCHANGED <<core, feed, pick, tickerCache, stream, receiptWait>>

\* step 3: the row ids of the events are read back
SaveRereadIds ==
    /\ saveTx.pc = "reread"
    /\ \/ saveTx' = [saveTx EXCEPT !.pc = "odds"]
       \/ saveTx' = SaveRollback("reread")
    /\ UNCHANGED <<core, feed, pick, tickerCache, stream, receiptWait>>

\* steps 4 and 5: the odds rows are linked to their events and upserted
SaveUpsertOdds ==
    /\ saveTx.pc = "odds"
    /\ \/ saveTx' = [saveTx EXCEPT
                        !.tx.odds = UpsertOddsRows(@, saveTx.tx.events,
                                                   saveTx.events, saveTx.odds),
                        !.pc = "commit"]
       \/ /\ saveTx.odds # <<>>
          /\ saveTx' = SaveRollback("odds")
    /\ UNCHANGED <<core, feed, pick, tickerCache, stream, receiptWait>>

\* the commit: the transaction's writes become the tables, or none does
SaveCommit ==
    /\ saveTx.pc = "commit"
    /\ \/ saveTx' = [saveTx EXCEPT !.stored = saveTx.tx, !.tx = NoTables,
                                   !.pc = "idle", !.result = "ok"]
       \/ saveTx' = SaveRollback("commit")
    /\ UNCHANGED <<core, feed, pick, tickerCache, stream, receiptWait>>

NextSave ==
    \/ SaveBegin(SaveEventBatches, SaveOddsBatches)
    \/ SaveUpsertEvents
    \/ SaveRereadIds
    \/ SaveUpsertOdds
    \/ SaveCommit

SpecSave == Init /\ [][NextSave]_vars

\* C38: when SaveEvents returns an error, whichever step failed, the stored
\* events and odds are exactly what they were before the call; and nothing
\* of a batch is stored before its commit
C38_FailedSaveChangesNothing ==
    /\ saveTx.result = "error" => saveTx.stored = saveTx.before
    /\ saveTx.pc # "idle" => saveTx.stored = saveTx.before

\* C38 witness: the upsert of the odds failed after the transaction had
\* written the batch's events, and the tables are as before the call
C38_Witness ==
    /\ saveTx.result = "error"
    /\ saveTx.failedAt = "odds"
    /\ saveTx.dropped.events # saveTx.before.events
    /\ saveTx.before.events # {}
    /\ saveTx.stored = saveTx.before

(* ----------------------- ReleaseFunds: receipt loop ---------------------- *)

\* for i := 0; i < 30; i++
maxReceiptAttempts == 30

\* time.After(2 * time.Second)
receiptPollSec == 2

\* SendTransaction succeeded: the loop is entered
ReceiptLoopEnter ==
    /\ receiptWait.pc = "idle"
    /\ \E cancelled \in BOOLEAN :
          receiptWait' = [receiptWait EXCEPT !.pc = "poll", !.cancelled = cancelled]
    /\ UNCHANGED <<core, feed, pick, tickerCache, stream, saveTx>>

\* the caller's context is cancelled
ReceiptCancel ==
    /\ receiptWait.pc \in {"poll", "wait"}
    /\ ~receiptWait.cancelled
    /\ receiptWait' = [receiptWait EXCEPT !.cancelled = TRUE]
    /\ UNCHANGED <<core, feed, pick, tickerCache, stream, saveTx>>

\* one TransactionReceipt call of the loop: an error (no receipt yet, or the
\* context already cancelled) goes to the select, a receipt ends the loop
ReceiptPoll ==
    /\ receiptWait.pc = "poll"
    /\ receiptWait.i < maxReceiptAttempts
    /\ \E answer \in IF receiptWait.cancelled THEN {"error"}
                    ELSE {"error", "success", "reverted"} :
          receiptWait' = [receiptWait EXCEPT
              !.polls = @ + 1,
              !.pollsAfterCancel = IF receiptWait.cancelled THEN @ + 1 ELSE @,
              !.pc = IF answer = "error" THEN "wait" ELSE "done",
              !.result = IF answer = "error" THEN "" ELSE answer]
    /\ UNCHANGED <<core, feed, pick, tickerCache, stream, saveTx>>

\* the select that goes on after two seconds whatever the context says
ReceiptSleep_IgnoresCancel ==
    /\ receiptWait.pc = "wait"
    /\ receiptWait' = [receiptWait EXCEPT !.pc = "poll", !.i = @ + 1,
                                          !.waited = @ + receiptPollSec]
    /\ UNCHANGED <<core, feed, pick, tickerCache, stream, saveTx>>

\* the select after a failed call: a cancelled context, or one cancelled
\* within the two seconds, returns; otherwise the loop goes on after them
ReceiptSleep ==
    /\ receiptWait.pc = "wait"
    /\ \E fires \in BOOLEAN :
          IF receiptWait.cancelled \/ fires
          THEN receiptWait' = [receiptWait EXCEPT !.pc = "done", !.cancelled = TRUE,
                                                  !.result = "cancelled"]
          ELSE receiptWait' = [receiptWait EXCEPT !.pc = "poll", !.i = @ + 1,
                                                  !.waited = @ + receiptPollSec]
    /\ UNCHANGED <<core, feed, pick, tickerCache, stream, saveTx>>

\* the loop ends without a receipt
ReceiptTimeout ==
    /\ receiptWait.pc = "poll"
    /\ receiptWait.i >= maxReceiptAttempts
    /\ receiptWait' = [receiptWait EXCEPT !.pc = "done", !.result = "timeout"]
    /\ UNCHANGED <<core, feed, pick, tickerCache, stream, saveTx>>

NextReceipt ==
    \/ ReceiptLoopEnter
    \/ ReceiptCancel
    \/ ReceiptPoll
    \/ ReceiptSleep
    \/ ReceiptTimeout

SpecReceipt ==
    /\ Init /\ [][NextReceipt]_vars
    /\ WF_vars(ReceiptPoll) /\ WF_vars(ReceiptSleep) /\ WF_vars(ReceiptTimeout)

\* C40: after the transaction is sent the receipt is asked for at most 30
\* times, two seconds apart; once the caller's context is cancelled at most
\* one more call is started before the function returns; and the loop
\* always comes to its return
C40_ReceiptWaitIsBounded ==
    /\ [](/\ receiptWait.polls <= maxReceiptAttempts
          /\ receiptWait.waited = receiptPollSec * receiptWait.i
          /\ receiptWait.waited <= receiptPollSec * maxReceiptAttempts
          /\ receiptWait.pollsAfterCancel <= 1
          /\ receiptWait.result = "timeout" => receiptWait.polls = maxReceiptAttempts)
    /\ (receiptWait.pc # "idle") ~> (receiptWait.pc = "done")

\* C40 witness: thirty calls found no receipt, sixty seconds were waited,
\* and the function returned its timeout error
C40_Witness ==
    /\ receiptWait.pc = "done"
    /\ receiptWait.result = "timeout"
    /\ receiptWait.polls = maxReceiptAttempts
    /\ receiptWait.waited = receiptPollSec * maxReceiptAttempts
    /\ ~receiptWait.cancelled

====
